---- MODULE Spec2Model ----
(***************************************************************************)
(* State-machine model of the AI orchestration code of Githubaiapp:        *)
(*   - handleExpansionSubmit (src/App.tsx, first App revision): planning   *)
(*     of blueprints, then a pool of CONCURRENCY_LIMIT workers draining a  *)
(*     task queue, each job fetching, streaming and committing;            *)
(*   - handleBulkEditSubmit (src/App.tsx, second App revision): a new      *)
(*     branch, then a sequential fetch / stream / compare / commit loop.   *)
(* JavaScript is run-to-completion: an action is everything a handler or   *)
(* an async continuation does between two awaits.                          *)
(* Text is a sequence of one-character strings.                            *)
(***************************************************************************)
EXTENDS Integers, Sequences, FiniteSets, TLC

----------------------------------------------------------------------------
(* Bounds of the model *)

\* a wide run schedules this many jobs (more than CONCURRENCY_LIMIT)
MaxJobs == 7
\* longest blueprint list the planning call returns for one seed of a deep run
MaxItems == 2
\* most fragments the completion streams of one deep run deliver
MaxChunks == 2
\* most gateway calls of one deep run that throw
MaxFaults == 2

----------------------------------------------------------------------------
(* Text helpers *)

Whitespace == {" ", "\n"}

RECURSIVE TrimStart(_)
TrimStart(s) ==
    IF s # <<>> /\ Head(s) \in Whitespace THEN TrimStart(Tail(s)) ELSE s

RECURSIVE TrimEnd(_)
TrimEnd(s) ==
    IF s # <<>> /\ s[Len(s)] \in Whitespace
    THEN TrimEnd(SubSeq(s, 1, Len(s) - 1))
    ELSE s

\* String.prototype.trim
Trim(s) == TrimEnd(TrimStart(s))

\* the text fragments a completion stream may deliver (chunk.text)
Fragments == {<<>>, <<" ">>, <<"x">>}

----------------------------------------------------------------------------
(* Editor: data *)

\* most handleOpenFile invocations waiting for the gateway at a time
MaxOpening == 2

Repos == {"o/r", "p/q"}

\* `${repoFullName}::${path}`, and the null of activeFileKey
FileKey(repoFullName, path) == <<repoFullName, path>>
NullKey == <<>>

\* currentBranchByRepo = {}
NoBranchSelected == [r \in Repos |-> ""]

\* what getFileContent returns for a file of the explorer on a branch: the
\* content of the file differs from branch to branch
BlobAt(branch, path) ==
    IF branch = "main" THEN <<"x">> ELSE <<"x", " ">>

----------------------------------------------------------------------------
(* Expansion run: data *)

CONCURRENCY_LIMIT == 5

\* the files of the explorer the user can tick as seeds: repo::dir/file
Seed1 == [repoFullName |-> "o/r", dir |-> "A", file |-> "s1"]
Seed2 == [repoFullName |-> "o/r", dir |-> "B", file |-> "s2"]
Seed3 == [repoFullName |-> "o/r", dir |-> "A", file |-> "s3"]
SeedKeys == {Seed1, Seed2, Seed3}

\* a blueprint item returned by the planning call
BlueprintItem(n) == [filePath |-> n, description |-> <<"d">>]

\* k items with k different paths
Distinct(k) == [n \in 1..k |-> BlueprintItem(n)]

\* k items, the last one repeating the path of the first
WithDup(k) == [n \in 1..k |-> BlueprintItem(IF n = k THEN 1 ELSE n)]

(* The environment of a run: the files of the explorer the user can tick   *)
(* as seeds and how many of them he ticks, the branches the branch selector *)
(* offers besides the default one, the lists the planning call may          *)
(* return (parsed.files || []), the fragments the streams deliver and how   *)
(* many at most, and how many gateway calls throw.  A wide run has more     *)
(* jobs than workers and one failure or one fragment; a deep run has few    *)
(* jobs and more fragments and failures; a planned run has several seeds.   *)
WideRun(chunks, faults) ==
    [app        |-> "expansion",
     explorer   |-> {Seed1},
     seeds      |-> 1,
     blueprints |-> {Distinct(MaxJobs - 1), WithDup(MaxJobs)},
     tree       |-> <<>>,
     fragments  |-> {<<"x">>},
     branches   |-> {},
     files      |-> {},
     opens      |-> 0,
     chunks     |-> chunks,
     faults     |-> faults]

DeepRun ==
    [app        |-> "expansion",
     explorer   |-> {Seed1},
     seeds      |-> 1,
     blueprints |-> {Distinct(k) : k \in 0..MaxItems} \cup {WithDup(MaxItems)},
     tree       |-> <<>>,
     fragments  |-> Fragments,
     branches   |-> {},
     files      |-> {},
     opens      |-> 0,
     chunks     |-> MaxChunks,
     faults     |-> MaxFaults]

\* an expansion run of two jobs in a session in which the user also opens
\* the seed file in the editor and selects another branch
BranchRun ==
    [app        |-> "expansion",
     explorer   |-> {Seed1},
     seeds      |-> 1,
     blueprints |-> {Distinct(2)},
     tree       |-> <<>>,
     fragments  |-> {<<"x">>},
     branches   |-> {"dev"},
     files      |-> {FileKey("o/r", "A/s1")},
     opens      |-> 1,
     chunks     |-> 1,
     faults     |-> 0]

PlannedRun ==
    [app        |-> "expansion",
     explorer   |-> SeedKeys,
     seeds      |-> Cardinality(SeedKeys),
     blueprints |-> {Distinct(0), Distinct(1)},
     tree       |-> <<>>,
     fragments  |-> {<<"x">>},
     branches   |-> {},
     files      |-> {},
     opens      |-> 0,
     chunks     |-> 1,
     faults     |-> MaxFaults]

NoAlert == [type |-> "none", message |-> ""]

\* the jobs handleExpansionSubmit builds from one seed's blueprint items
BlueprintJobs(seedKey, items) ==
    [n \in 1..Len(items) |->
        [id              |-> <<seedKey.repoFullName, <<seedKey.dir, items[n].filePath>> >>,
         repoFullName    |-> seedKey.repoFullName,
         seedFilePath    |-> <<seedKey.dir, seedKey.file>>,
         newFilePath     |-> <<seedKey.dir, items[n].filePath>>,
         description     |-> items[n].description,
         status          |-> "queued",
         generatedContent |-> <<"/", "/", " ">> \o items[n].description,
         error           |-> "null"]]

\* jobArrays.flat()
RECURSIVE Flat(_)
Flat(arrays) ==
    IF arrays = <<>> THEN <<>> ELSE Head(arrays) \o Flat(Tail(arrays))

\* setExpansionJobs(prev => prev.map(j => j.id === id ? {...j, status} : j))
SetStatus(jobs, id, status) ==
    [k \in DOMAIN jobs |->
        IF jobs[k].id = id THEN [jobs[k] EXCEPT !.status = status] ELSE jobs[k]]

\* variant of the catch block's update that records nothing
LeaveStatus(jobs, id, message) == jobs

\* ... {...j, status: 'failed', error: errorMessage}
SetFailed(jobs, id, message) ==
    [k \in DOMAIN jobs |->
        IF jobs[k].id = id
        THEN [jobs[k] EXCEPT !.status = "failed", !.error = message]
        ELSE jobs[k]]

\* ... {...j, generatedContent: newContent}
SetContent(jobs, id, content) ==
    [k \in DOMAIN jobs |->
        IF jobs[k].id = id
        THEN [jobs[k] EXCEPT !.generatedContent = content]
        ELSE jobs[k]]

\* the isComplete prop handed to ExpansionProgress
IsComplete(jobs) ==
    ~ \E k \in DOMAIN jobs : jobs[k].status \in {"queued", "generating", "committing"}

\* a processJob invocation that has not started: the position it is at, its
\* local newContent and (history) the fragments its stream has delivered
NotStarted == [pc |-> "queued", newContent |-> <<>>, delivered |-> <<>>]

\* the texts of a sequence of fragments, one after the other
RECURSIVE Concat(_)
Concat(fragments) ==
    IF fragments = <<>> THEN <<>> ELSE Head(fragments) \o Concat(Tail(fragments))

----------------------------------------------------------------------------
(* Bulk edit run: data *)

FileNode(p) == [type |-> "file", path |-> p, children |-> <<>>]
DirNode(p, children) == [type |-> "dir", path |-> p, children |-> children]

\* the paths of the file nodes of a tree, at any depth
RECURSIVE FilePathSet(_)
FilePathSet(nodes) ==
    UNION { IF nodes[k].type = "file" THEN {nodes[k].path}
            ELSE FilePathSet(nodes[k].children) : k \in DOMAIN nodes }

\* variant of getAllFilePaths that does not descend into directories
RECURSIVE TopLevelFilePaths(_)
TopLevelFilePaths(nodes) ==
    IF nodes = <<>> THEN <<>>
    ELSE (IF Head(nodes).type = "file" THEN <<Head(nodes).path>> ELSE <<>>)
         \o TopLevelFilePaths(Tail(nodes))

\* getAllFilePaths: the file nodes of the tree, depth first
RECURSIVE getAllFilePaths(_)
getAllFilePaths(nodes) ==
    IF nodes = <<>> THEN <<>>
    ELSE LET node == Head(nodes)
         IN (IF node.type = "file" THEN <<node.path>>
             ELSE getAllFilePaths(node.children))
            \o getAllFilePaths(Tail(nodes))

\* the repository trees of the explorer
SmallTree == << DirNode("d", << FileNode("d/a"), DirNode("d/e", <<>>) >>),
                FileNode("b") >>

\* what getFileContent may return as the content of a file
Originals == { <<>>, <<"x">>, <<"x", " ">> }

\* the revision marker of a blob is a function of its content
ShaOf(content) == <<"sha", content>>

DefaultBranch == "main"
\* variant in which the run commits to the default branch
BaseBranchName == "main"

NewBranchName == "ai-bulk-edit"

BulkRun(tree) ==
    [app        |-> "bulk",
     explorer   |-> {},
     seeds      |-> 0,
     blueprints |-> {},
     tree       |-> tree,
     fragments  |-> Fragments,
     branches   |-> {},
     files      |-> {},
     opens      |-> 0,
     chunks     |-> MaxChunks,
     faults     |-> MaxFaults]

\* a bulk edit in a session in which the user also opens a file of the
\* repository in the editor
OpenBulkRun ==
    [app        |-> "bulk",
     explorer   |-> {},
     seeds      |-> 0,
     blueprints |-> {},
     tree       |-> SmallTree,
     fragments  |-> {<<"x">>},
     branches   |-> {},
     files      |-> {FileKey("o/r", "b")},
     opens      |-> 1,
     chunks     |-> 1,
     faults     |-> 0]

\* a session in the editor: files of two repositories, a second branch
EditorRun ==
    [app        |-> "editor",
     explorer   |-> {},
     seeds      |-> 0,
     blueprints |-> {},
     tree       |-> <<>>,
     fragments  |-> {},
     branches   |-> {"dev"},
     files      |-> {FileKey("o/r", "a"), FileKey("p/q", "c")},
     opens      |-> MaxOpening,
     chunks     |-> 0,
     faults     |-> 1]

\* a session in the editor in which the user types and commits
CommitRun ==
    [app        |-> "commit",
     explorer   |-> {},
     seeds      |-> 0,
     blueprints |-> {},
     tree       |-> <<>>,
     fragments  |-> {},
     branches   |-> {},
     files      |-> {FileKey("o/r", "a"), FileKey("p/q", "c")},
     opens      |-> 1,
     chunks     |-> 0,
     faults     |-> 1]

\* a session that starts at the AuthModal
LoginRun ==
    [app        |-> "login",
     explorer   |-> {},
     seeds      |-> 0,
     blueprints |-> {},
     tree       |-> <<>>,
     fragments  |-> {},
     branches   |-> {},
     files      |-> {},
     opens      |-> 0,
     chunks     |-> 0,
     faults     |-> MaxFaults]

\* a session in the editor: three files opened one after the other, closed,
\* shown
TabsRun ==
    [app        |-> "editor",
     explorer   |-> {},
     seeds      |-> 0,
     blueprints |-> {},
     tree       |-> <<>>,
     fragments  |-> {},
     branches   |-> {},
     files      |-> {FileKey("o/r", "a"), FileKey("o/r", "b"), FileKey("p/q", "c")},
     opens      |-> 1,
     chunks     |-> 0,
     faults     |-> 0]

Scenarios == {WideRun(0, 1), WideRun(1, 0), DeepRun, BranchRun, PlannedRun,
              BulkRun(<<>>), BulkRun(SmallTree), OpenBulkRun, EditorRun, TabsRun,
              CommitRun, LoginRun}

BulkIdle == [pc |-> "idle", i |-> 0, filePaths |-> <<>>,
             fileContent |-> [path |-> "", content |-> <<>>, sha |-> <<>>],
             newContent |-> <<>>]

NoCalls == [branches |-> <<>>, fetches |-> <<>>, edits |-> <<>>,
            compared |-> <<>>, commits |-> <<>>, skipped |-> <<>>, failed |-> <<>>]

----------------------------------------------------------------------------
(* Single-shot edit call: data *)

\* longest language tag and longest body of a response of the model
MaxTag == 2
MaxBody == 3

\* the character U+0060, three of which make a code fence
Backquote == "bq"

\* characters of \w, and the characters a language tag / a body is made of
WordChars == {"a"}
TagChars == {"a", "+"}
BodyChars == {"a", " ", "\n", Backquote}

\* the sequences over chars of length at most n
Texts(chars, n) == UNION {[1..k -> chars] : k \in 0..n}

Fence == <<Backquote, Backquote, Backquote>>

StartsWith(s, prefix) ==
    Len(s) >= Len(prefix) /\ SubSeq(s, 1, Len(prefix)) = prefix

EndsWith(s, suffix) ==
    Len(s) >= Len(suffix) /\ SubSeq(s, Len(s) - Len(suffix) + 1, Len(s)) = suffix

\* length of the longest prefix of s made of \w characters
RECURSIVE WordRun(_)
WordRun(s) ==
    IF s # <<>> /\ Head(s) \in WordChars THEN 1 + WordRun(Tail(s)) ELSE 0

\* first replace: a fence at the start, with a run of \w and a newline if
\* the run is followed by one, is removed
StripLeadingFence(s) ==
    IF ~StartsWith(s, Fence) THEN s
    ELSE LET rest == SubSeq(s, Len(Fence) + 1, Len(s))
             n == WordRun(rest)
         IN IF n < Len(rest) /\ rest[n + 1] = "\n"
            THEN SubSeq(rest, n + 2, Len(rest))
            ELSE rest

\* second replace: a fence at the end, with the newline before it if there
\* is one, is removed
StripTrailingFence(s) ==
    IF ~EndsWith(s, Fence) THEN s
    ELSE LET rest == SubSeq(s, 1, Len(s) - Len(Fence))
         IN IF rest # <<>> /\ rest[Len(rest)] = "\n"
            THEN SubSeq(rest, 1, Len(rest) - 1)
            ELSE rest

\* cleanedCode
CleanFences(editedCode) ==
    Trim(StripTrailingFence(StripLeadingFence(editedCode)))

\* a response wrapped in fences: fence, tag, newline, body, fence
Fenced(tag, body) == Fence \o tag \o <<"\n">> \o body \o Fence

\* what response.text may be, with the parts it was put together from
Responses ==
    {[fenced |-> TRUE, tag |-> t, body |-> b, text |-> Fenced(t, b)] :
        t \in Texts(TagChars, MaxTag), b \in Texts(BodyChars, MaxBody)}
    \cup
    {[fenced |-> FALSE, tag |-> <<>>, body |-> b, text |-> b] :
        b \in Texts(BodyChars \ {Backquote}, MaxBody)}

EditIdle == [pc |-> "idle", response |-> [fenced |-> FALSE, tag |-> <<>>,
                                          body |-> <<>>, text |-> <<>>],
             cleanedCode |-> <<>>, error |-> "null"]

----------------------------------------------------------------------------
(* Session and manual commit: data *)

\* useState<UnifiedFileTree>({}): no repository listed
NoRepos == [r \in {} |-> <<>>]

\* the tree fetchRepoTree returns for a repository
RepoTree(r) == <<FileNode("a")>>

\* the lists of repositories fetchAllRepos may return
RepoLists == SUBSET Repos

LoginIdle == [pc |-> "idle", repos |-> {}, pending |-> {}, failed |-> {},
              newFileTree |-> NoRepos]

\* what the user may type into the editor
EditedTexts == { <<"y">> }

\* what getFileContent may return after content was committed: the content,
\* or a later revision of the file on that branch
Refetched(content) == { content, <<"z">> }

CommitIdle == [pc |-> "idle", key |-> NullKey, branch |-> "", content |-> <<>>,
               sha |-> <<>>, updatedFile |-> [content |-> <<>>, sha |-> <<>>]]

----------------------------------------------------------------------------
(* State *)

VARIABLES
    selectedFiles,          \* Set<string>, in insertion order
    isExpansionModalOpen,
    isExpanding,
    expansionJobs,          \* the job records the progress view renders
    alert,                  \* the Alert shown, NoAlert for null
    pc,                     \* position of handleExpansionSubmit
    seedFileKeys,           \* Array.from(selectedFiles) of the run
    plan,                   \* per seed: position and result of its blueprint promise
    initialJobs,            \* the job objects of the run
    taskQueue,              \* indices into initialJobs still to be shifted
    proc,                   \* per job object: position and newContent of its processJob
    returned,               \* how many of the workers have left their while loop
    dequeueLog,             \* history: the indices shifted off taskQueue, in order
    fetchLog,               \* history: per job, the getFileContent calls issued
    genLog,                 \* history: per job, the generateFileForBlueprint calls issued
    commitLog,              \* history: per job, the createOrUpdateFile calls issued
    faults,                 \* gateway calls of the run that threw
    chunks,                 \* fragments the streams of the run delivered
    scenario,               \* the environment of the run
    bulkEditRepo,           \* the repository of the open BulkAiEditModal, "null" for none
    isLoading,
    loadingMessage,
    bulk,                   \* handleBulkEditSubmit: position, loop index and locals
    bulkLog,                \* history: the gateway calls handleBulkEditSubmit issued
    edit,                   \* editCodeWithAI: position, response.text and result
    currentBranchByRepo,    \* per repository the branch selected, "" for none
    closure,                \* the currentBranchByRepo the running handleExpansionSubmit closed over
    openFiles,              \* SelectedFile[]: the files open in the editor
    activeFileKey,          \* key of the file shown, NullKey for null
    branchesByRepo,         \* per repository: whether its branches have been loaded
    opening,                \* the handleOpenFile invocations waiting for the gateway
    closed,                 \* history: counts and closing summary of the bulk edits that are over
    token,                  \* the token of the session, "null" for null
    fileTree,               \* UnifiedFileTree: per repository listed, its tree
    login,                  \* handleTokenSubmit: position, newFileTree, the trees awaited
    commit                  \* handleCommit: position and the activeFile of its closure

vars == <<selectedFiles, isExpansionModalOpen, isExpanding, expansionJobs, alert,
          pc, seedFileKeys, plan, initialJobs, taskQueue, proc, returned,
          dequeueLog, fetchLog, genLog, commitLog, faults, chunks, scenario,
          bulkEditRepo, isLoading, loadingMessage, bulk, bulkLog, edit,
          currentBranchByRepo, closure, openFiles, activeFileKey, branchesByRepo,
          opening, closed, token, fileTree, login, commit>>

sessionVars == <<token, fileTree, login>>

editorVars == <<openFiles, activeFileKey, branchesByRepo, opening>>

bulkVars == <<bulkEditRepo, isLoading, loadingMessage, bulk, bulkLog>>

expansionVars == <<selectedFiles, isExpansionModalOpen, isExpanding, expansionJobs,
                   pc, seedFileKeys, plan, initialJobs, taskQueue, proc, returned,
                   dequeueLog, fetchLog, genLog, commitLog>>

poolVars == <<expansionJobs, taskQueue, proc, returned, dequeueLog, fetchLog, genLog, commitLog>>

Init ==
    /\ selectedFiles = <<>>
    /\ isExpansionModalOpen = FALSE
    /\ isExpanding = FALSE
    /\ expansionJobs = <<>>
    /\ alert = NoAlert
    /\ pc = "idle"
    /\ seedFileKeys = <<>>
    /\ plan = <<>>
    /\ initialJobs = <<>>
    /\ taskQueue = <<>>
    /\ proc = <<>>
    /\ returned = 0
    /\ dequeueLog = <<>>
    /\ fetchLog = <<>>
    /\ genLog = <<>>
    /\ commitLog = <<>>
    /\ faults = 0
    /\ chunks = 0
    /\ scenario \in Scenarios
    /\ bulkEditRepo = "null"
    /\ isLoading = FALSE
    /\ loadingMessage = ""
    /\ bulk = BulkIdle
    /\ bulkLog = NoCalls
    /\ edit = EditIdle
    /\ currentBranchByRepo = NoBranchSelected
    /\ closure = NoBranchSelected
    /\ openFiles = <<>>
    /\ activeFileKey = NullKey
    /\ branchesByRepo = [r \in Repos |-> FALSE]
    /\ opening = <<>>
    /\ closed = <<>>
    /\ token = IF scenario.app = "login" THEN "null" ELSE "t"
    /\ fileTree = IF scenario.app = "login" THEN NoRepos
                  ELSE [r \in Repos |-> RepoTree(r)]
    /\ login = LoginIdle
    /\ commit = CommitIdle

----------------------------------------------------------------------------
(* Expansion run: selection and planning *)

InSeq(x, s) == \E i \in DOMAIN s : s[i] = x

\* handleFileSelection
HandleFileSelection(fileKey, isSelected) ==
    /\ pc = "idle"
    /\ fileKey \in scenario.explorer
    /\ isSelected => Len(selectedFiles) < scenario.seeds
    /\ selectedFiles' =
          IF isSelected
          THEN IF InSeq(fileKey, selectedFiles) THEN selectedFiles
               ELSE Append(selectedFiles, fileKey)
          ELSE SelectSeq(selectedFiles, LAMBDA k : k # fileKey)
    /\ UNCHANGED <<isExpansionModalOpen, isExpanding, expansionJobs, alert, pc,
                   seedFileKeys, plan, initialJobs, taskQueue, proc, returned,
                   dequeueLog, fetchLog, genLog, commitLog, faults, chunks, scenario, sessionVars, commit, editorVars, closed, edit, currentBranchByRepo, closure, bulkVars>>

\* onStartExpansion / ExpansionModal onClose
SetExpansionModalOpen(open) ==
    /\ scenario.app = "expansion"
    /\ pc = "idle"
    /\ isExpansionModalOpen # open
    /\ isExpansionModalOpen' = open
    /\ UNCHANGED <<selectedFiles, isExpanding, expansionJobs, alert, pc,
                   seedFileKeys, plan, initialJobs, taskQueue, proc, returned,
                   dequeueLog, fetchLog, genLog, commitLog, faults, chunks, scenario, sessionVars, commit, editorVars, closed, edit, currentBranchByRepo, closure, bulkVars>>

\* currentBranchByRepo[repoFullName] || repoData.default_branch
ActiveBranch(byRepo, repoFullName) ==
    IF byRepo[repoFullName] = "" THEN DefaultBranch ELSE byRepo[repoFullName]

\* the key of an open file
KeyOf(f) == FileKey(f.repoFullName, f.path)

\* openFiles.find(f => key of f === activeFileKey): its index, 0 for undefined
ActiveFile(files, key) ==
    IF \E k \in DOMAIN files : KeyOf(files[k]) = key
    THEN CHOOSE k \in DOMAIN files :
            /\ KeyOf(files[k]) = key
            /\ \A m \in DOMAIN files : KeyOf(files[m]) = key => k <= m
    ELSE 0

\* a sequence without its i-th element
RemoveAt(seq, i) ==
    [k \in 1..(Len(seq) - 1) |-> IF k < i THEN seq[k] ELSE seq[k + 1]]

FailedToLoadAlert == [type |-> "error", message |-> "Failed to load file"]

\* handleOpenFile up to its first await, called from a closure that holds
\* the openFiles, branchesByRepo and currentBranchByRepo given.  st is the
\* state the React updates are applied to.
OpenFile(st, files, loaded, byRepo, key, branch) ==
    IF \E k \in DOMAIN files : KeyOf(files[k]) = key
    THEN [st EXCEPT !.activeFileKey = key]
    ELSE LET effectiveBranch == IF branch # "" THEN branch
                                ELSE ActiveBranch(byRepo, key[1])
         IN IF ~loaded[key[1]]
            THEN [st EXCEPT !.isLoading = TRUE,
                            !.loadingMessage = "Fetching branches...",
                            !.opening = Append(@, [key |-> key, pc |-> "branches",
                                                   branch |-> effectiveBranch])]
            ELSE [st EXCEPT !.isLoading = TRUE,
                            !.loadingMessage = "Loading from branch",
                            !.currentBranchByRepo = [@ EXCEPT ![key[1]] = effectiveBranch],
                            !.opening = Append(@, [key |-> key, pc |-> "fetch",
                                                   branch |-> effectiveBranch])]

\* filesToReload.forEach(file => handleOpenFile(..., newBranch))
RECURSIVE OpenEach(_, _, _, _, _, _)
OpenEach(st, files, loaded, byRepo, filesToReload, newBranch) ==
    IF filesToReload = <<>> THEN st
    ELSE OpenEach(OpenFile(st, files, loaded, byRepo, KeyOf(Head(filesToReload)), newBranch),
                  files, loaded, byRepo, Tail(filesToReload), newBranch)

\* the React state the editor handlers update
EditorState ==
    [openFiles |-> openFiles, activeFileKey |-> activeFileKey,
     currentBranchByRepo |-> currentBranchByRepo, opening |-> opening,
     isLoading |-> isLoading, loadingMessage |-> loadingMessage]

\* the updates of a handler are applied
Apply(st) ==
    /\ openFiles' = st.openFiles
    /\ activeFileKey' = st.activeFileKey
    /\ currentBranchByRepo' = st.currentBranchByRepo
    /\ opening' = st.opening
    /\ isLoading' = st.isLoading
    /\ loadingMessage' = st.loadingMessage

\* the explorer and the editor can be clicked: no modal covers them
\* (ExpansionModal, the progress view and BulkAiEditModal are `fixed inset-0`)
NoModal == ~isExpansionModalOpen /\ ~isExpanding /\ bulkEditRepo = "null"

\* the user clicks a file of the explorer: handleOpenFile(repoFullName, path)
HandleOpenFile(key) ==
    /\ NoModal
    /\ key \in scenario.files
    /\ Len(opening) < scenario.opens
    /\ Apply(OpenFile(EditorState, openFiles, branchesByRepo, currentBranchByRepo, key, ""))
    /\ UNCHANGED <<expansionVars, bulkEditRepo, bulk, bulkLog, branchesByRepo, alert,
                   faults, chunks, scenario, sessionVars, commit, edit, closure, closed>>

\* the finally block of handleOpenFile
OpenFinally(o) ==
    /\ opening' = RemoveAt(opening, o)
    /\ isLoading' = FALSE
    /\ loadingMessage' = ""

\* getRepoBranches returns: the branch is recorded, getFileContent is awaited
OpenBranchesReturn(o) ==
    /\ o \in DOMAIN opening
    /\ opening[o].pc = "branches"
    /\ branchesByRepo' = [branchesByRepo EXCEPT ![opening[o].key[1]] = TRUE]
    /\ currentBranchByRepo' =
          [currentBranchByRepo EXCEPT ![opening[o].key[1]] = opening[o].branch]
    /\ loadingMessage' = "Loading from branch"
    /\ opening' = [opening EXCEPT ![o].pc = "fetch"]
    /\ UNCHANGED <<expansionVars, bulkEditRepo, bulk, bulkLog, isLoading, openFiles,
                   activeFileKey, alert, faults, chunks, scenario, sessionVars, commit, edit, closure, closed>>

\* getRepoBranches or getFileContent throws: the catch block, then finally
OpenThrow(o) ==
    /\ o \in DOMAIN opening
    /\ faults < scenario.faults
    /\ faults' = faults + 1
    /\ alert' = FailedToLoadAlert
    /\ OpenFinally(o)
    /\ UNCHANGED <<expansionVars, bulkEditRepo, bulk, bulkLog, openFiles, activeFileKey,
                   branchesByRepo, currentBranchByRepo, chunks, scenario, sessionVars, commit, edit, closure,
                   closed>>

\* getFileContent returns: the file is appended to openFiles and shown
OpenFetchReturn(o) ==
    /\ o \in DOMAIN opening
    /\ opening[o].pc = "fetch"
    /\ LET content == BlobAt(opening[o].branch, opening[o].key[2])
           newFile == [repoFullName  |-> opening[o].key[1],
                       path          |-> opening[o].key[2],
                       content       |-> content,
                       editedContent |-> content,
                       sha           |-> ShaOf(content),
                       defaultBranch |-> DefaultBranch]
       IN openFiles' = Append(openFiles, newFile)
    /\ activeFileKey' = opening[o].key
    /\ OpenFinally(o)
    /\ UNCHANGED <<expansionVars, bulkEditRepo, bulk, bulkLog, branchesByRepo,
                   currentBranchByRepo, alert, faults, chunks, scenario, sessionVars, commit, edit, closure,
                   closed>>

\* handleBranchChange: the user picks another branch in the selector of the
\* active file.  The handleOpenFile it calls is the one of the render the
\* handler was made in: its openFiles still holds the files to reload.
HandleBranchChange(newBranch) ==
    /\ NoModal
    /\ newBranch \in scenario.branches
    /\ ActiveFile(openFiles, activeFileKey) # 0
    /\ LET activeFile == openFiles[ActiveFile(openFiles, activeFileKey)]
           repoToUpdate == activeFile.repoFullName
           filesToReload == SelectSeq(openFiles, LAMBDA f : f.repoFullName = repoToUpdate)
           otherFiles == SelectSeq(openFiles, LAMBDA f : f.repoFullName # repoToUpdate)
           st == [EditorState EXCEPT
                     !.currentBranchByRepo = [@ EXCEPT ![repoToUpdate] = newBranch],
                     !.openFiles = otherFiles,
                     !.activeFileKey = IF otherFiles # <<>> THEN KeyOf(otherFiles[1])
                                       ELSE NullKey]
       IN /\ newBranch # currentBranchByRepo[repoToUpdate]
          /\ Apply(OpenEach(st, openFiles, branchesByRepo, currentBranchByRepo,
                            filesToReload, newBranch))
    /\ UNCHANGED <<expansionVars, bulkEditRepo, bulk, bulkLog, branchesByRepo, alert,
                   faults, chunks, scenario, sessionVars, commit, edit, closure, closed>>

\* variant that always shows the first of the remaining tabs
FirstTab(index) == 1

\* Math.max(0, index - 1), as a position counted from 1
NewActiveIndex(index) == IF index - 1 > 1 THEN index - 1 ELSE 1

\* handleCloseFile: the user closes a tab
HandleCloseFile(keyToClose) ==
    /\ NoModal
    /\ keyToClose \in scenario.files
    /\ LET index == ActiveFile(openFiles, keyToClose)
           newOpenFiles == SelectSeq(openFiles, LAMBDA f : KeyOf(f) # keyToClose)
       IN IF index = 0
          THEN UNCHANGED <<openFiles, activeFileKey>>
          ELSE /\ openFiles' = newOpenFiles
               /\ activeFileKey' =
                     IF activeFileKey # keyToClose THEN activeFileKey
                     ELSE IF newOpenFiles = <<>> THEN NullKey
                     ELSE KeyOf(newOpenFiles[NewActiveIndex(index)])
    /\ UNCHANGED <<expansionVars, bulkVars, branchesByRepo, opening,
                   currentBranchByRepo, alert, faults, chunks, scenario, sessionVars, commit, edit, closure,
                   closed>>

\* handleSetActiveFile: the user clicks the tab of an open file
HandleSetActiveFile(key) ==
    /\ NoModal
    /\ ActiveFile(openFiles, key) # 0
    /\ activeFileKey' = key
    /\ UNCHANGED <<expansionVars, bulkVars, openFiles, branchesByRepo,
                   opening, currentBranchByRepo, alert, faults, chunks, scenario, sessionVars, commit, edit,
                   closure, closed>>

\* handleExpansionSubmit up to the first await: every seed's getFileContent is issued
HandleExpansionSubmit ==
    /\ pc = "idle"
    /\ isExpansionModalOpen
    /\ selectedFiles # <<>>
    /\ isExpansionModalOpen' = FALSE
    /\ isExpanding' = TRUE
    /\ expansionJobs' = <<>>
    /\ seedFileKeys' = selectedFiles
    /\ selectedFiles' = <<>>
    /\ plan' = [i \in DOMAIN selectedFiles |-> [pc |-> "fetch", items |-> <<>>]]
    /\ closure' = currentBranchByRepo
    /\ pc' = "planning"
    /\ UNCHANGED <<alert, initialJobs, taskQueue, proc, returned,
                   dequeueLog, fetchLog, genLog, commitLog, faults, chunks, scenario, sessionVars, commit, editorVars, closed, edit, currentBranchByRepo, bulkVars>>

----------------------------------------------------------------------------
(* Expansion run: the worker pool *)

\* variant in which a job reads the branch selected when it runs
LiveBranch == ActiveBranch(currentBranchByRepo, Seed1.repoFullName)

\* the branch processJob computes: from the map its closure holds (the jobs
\* of a run are all of the repository of the seeds)
JobBranch == ActiveBranch(closure, Seed1.repoFullName)

\* variant of the dequeue that reads the head without removing it
Peek(queue) == [job |-> Head(queue), rest |-> queue]

\* taskQueue.shift()
Shift(queue) == [job |-> Head(queue), rest |-> Tail(queue)]

\* One pass of a worker's while loop, up to processJob's first await.
\* st = [queue, jobs, proc, returned, log, fetches], init = the job objects.
\* The workers are anonymous closures: a pass is identified by the job it shifts.
RunWorker(st, init) ==
    IF Len(st.queue) > 0
    THEN LET sh == Shift(st.queue)
             job == init[sh.job]
         IN [st EXCEPT
                !.queue   = sh.rest,
                !.jobs    = SetStatus(st.jobs, job.id, "generating"),
                !.proc    = [st.proc EXCEPT ![sh.job].pc = "fetch"],
                !.log     = Append(st.log, sh.job),
                !.fetches = [st.fetches EXCEPT ![sh.job] =
                                Append(@, [path   |-> job.seedFilePath,
                                           branch |-> JobBranch])]]
    ELSE [st EXCEPT !.returned = @ + 1]

\* Array(CONCURRENCY_LIMIT).fill(null).map(worker): the workers start one after
\* the other, each running to its first await
RECURSIVE StartWorkers(_, _, _)
StartWorkers(st, init, n) ==
    IF n = 0 THEN st
    ELSE StartWorkers(RunWorker(st, init), init, n - 1)

CompletedAlert == [type |-> "success", message |-> "AI project expansion completed."]
PlanFailedAlert == [type |-> "error", message |-> "The AI architect failed to create an expansion plan."]
ExpansionFailedAlert == [type |-> "error", message |-> "Expansion Failed"]

\* The continuation of `await Promise.all(blueprintPromises)` when every seed resolved
AfterPlanning(newPlan) ==
    LET jobArrays == [i \in DOMAIN seedFileKeys |->
                          BlueprintJobs(seedFileKeys[i], newPlan[i].items)]
        jobs == Flat(jobArrays)
        st0 == [queue    |-> [i \in 1..Len(jobs) |-> i],
                jobs     |-> jobs,
                proc     |-> [i \in 1..Len(jobs) |-> NotStarted],
                returned |-> 0,
                log      |-> <<>>,
                fetches  |-> [i \in 1..Len(jobs) |-> <<>>]]
        st == StartWorkers(st0, jobs, CONCURRENCY_LIMIT)
    IN IF Len(jobs) = 0
       THEN /\ alert' = PlanFailedAlert
            /\ isExpanding' = FALSE
            /\ pc' = "aborted"
            /\ UNCHANGED <<initialJobs, poolVars>>
       ELSE /\ initialJobs' = jobs
            /\ expansionJobs' = st.jobs
            /\ taskQueue' = st.queue
            /\ proc' = st.proc
            /\ returned' = st.returned
            /\ dequeueLog' = st.log
            /\ fetchLog' = st.fetches
            /\ genLog' = [i \in 1..Len(jobs) |-> 0]
            /\ commitLog' = [i \in 1..Len(jobs) |-> <<>>]
            /\ pc' = "pool"
            /\ UNCHANGED <<alert, isExpanding>>

\* variant of the catch block that swallows the rejection
PlanningRejectedSilently ==
    /\ pc' = "aborted"
    /\ UNCHANGED <<alert, isExpanding, initialJobs, poolVars>>

\* The catch block of handleExpansionSubmit: Promise.all rejected
PlanningRejected ==
    /\ alert' = ExpansionFailedAlert
    /\ isExpanding' = FALSE
    /\ pc' = "aborted"
    /\ UNCHANGED <<initialJobs, poolVars>>

\* a seed's getFileContent returns: getExpansionBlueprint is called
SeedFetchReturn(i) ==
    /\ i \in DOMAIN plan
    /\ plan[i].pc = "fetch"
    /\ plan' = [plan EXCEPT ![i].pc = "blueprint"]
    /\ UNCHANGED <<selectedFiles, isExpansionModalOpen, isExpanding, alert, pc,
                   seedFileKeys, initialJobs, poolVars, faults, chunks, scenario, sessionVars, commit, editorVars, closed, edit, currentBranchByRepo, closure, bulkVars>>

\* a seed's getFileContent throws: its promise rejects
SeedFetchThrow(i) ==
    /\ i \in DOMAIN plan
    /\ plan[i].pc = "fetch"
    /\ faults < scenario.faults
    /\ faults' = faults + 1
    /\ plan' = [plan EXCEPT ![i].pc = "failed"]
    /\ IF pc = "planning" THEN PlanningRejected
       ELSE UNCHANGED <<alert, isExpanding, pc, initialJobs, poolVars>>
    /\ UNCHANGED <<selectedFiles, isExpansionModalOpen, seedFileKeys, chunks, scenario, sessionVars, commit, editorVars, closed, edit, currentBranchByRepo, closure, bulkVars>>

\* getExpansionBlueprint throws (request failed, unparsable JSON)
BlueprintThrow(i) ==
    /\ i \in DOMAIN plan
    /\ plan[i].pc = "blueprint"
    /\ faults < scenario.faults
    /\ faults' = faults + 1
    /\ plan' = [plan EXCEPT ![i].pc = "failed"]
    /\ IF pc = "planning" THEN PlanningRejected
       ELSE UNCHANGED <<alert, isExpanding, pc, initialJobs, poolVars>>
    /\ UNCHANGED <<selectedFiles, isExpansionModalOpen, seedFileKeys, chunks, scenario, sessionVars, commit, editorVars, closed, edit, currentBranchByRepo, closure, bulkVars>>

\* getExpansionBlueprint returns parsed.files || []
BlueprintReturn(i, items) ==
    /\ i \in DOMAIN plan
    /\ plan[i].pc = "blueprint"
    /\ LET newPlan == [plan EXCEPT ![i] = [pc |-> "ok", items |-> items]]
       IN /\ plan' = newPlan
          /\ IF pc = "planning" /\ \A k \in DOMAIN newPlan : newPlan[k].pc = "ok"
             THEN AfterPlanning(newPlan)
             ELSE UNCHANGED <<alert, isExpanding, pc, initialJobs, poolVars>>
    /\ UNCHANGED <<selectedFiles, isExpansionModalOpen, seedFileKeys, faults, chunks, scenario, sessionVars, commit, editorVars, closed, edit, currentBranchByRepo, closure, bulkVars>>

\* variant of a worker that neither loops nor returns after its first job
WorkerStops(j, jobs1) ==
    /\ expansionJobs' = jobs1
    /\ proc' = [proc EXCEPT ![j].pc = "done"]
    /\ UNCHANGED <<taskQueue, returned, dequeueLog, fetchLog, pc, alert>>

\* processJob of job j returned to its worker, which loops; when the last
\* worker returns, Promise.all resolves and the completion alert is shown
WorkerContinues(j, jobs1) ==
    LET st == RunWorker([queue |-> taskQueue, jobs |-> jobs1,
                         proc |-> [proc EXCEPT ![j].pc = "done"],
                         returned |-> returned,
                         log |-> dequeueLog, fetches |-> fetchLog], initialJobs)
    IN /\ expansionJobs' = st.jobs
       /\ taskQueue' = st.queue
       /\ proc' = st.proc
       /\ returned' = st.returned
       /\ dequeueLog' = st.log
       /\ fetchLog' = st.fetches
       /\ IF st.returned = CONCURRENCY_LIMIT
          THEN pc' = "done" /\ alert' = CompletedAlert
          ELSE UNCHANGED <<pc, alert>>

\* variant of processJob without its try/catch: the error is recorded but
\* rejects the worker's promise, so the worker leaves its loop
PropagateJobError(j, message) ==
    /\ expansionJobs' = SetFailed(expansionJobs, initialJobs[j].id, message)
    /\ proc' = [proc EXCEPT ![j].pc = "done"]
    /\ returned' = returned + 1
    /\ IF returned + 1 = CONCURRENCY_LIMIT
       THEN pc' = "done" /\ alert' = ExpansionFailedAlert
       ELSE UNCHANGED <<pc, alert>>
    /\ UNCHANGED <<taskQueue, dequeueLog, fetchLog>>

\* variant of the catch block that puts the failed job back on the queue
RequeueJob(j, message) ==
    LET st == RunWorker([queue |-> Append(taskQueue, j),
                         jobs |-> SetFailed(expansionJobs, initialJobs[j].id, message),
                         proc |-> [proc EXCEPT ![j].pc = "done"],
                         returned |-> returned,
                         log |-> dequeueLog, fetches |-> fetchLog], initialJobs)
    IN /\ expansionJobs' = st.jobs
       /\ taskQueue' = st.queue
       /\ proc' = st.proc
       /\ returned' = st.returned
       /\ dequeueLog' = st.log
       /\ fetchLog' = st.fetches
       /\ IF st.returned = CONCURRENCY_LIMIT
          THEN pc' = "done" /\ alert' = CompletedAlert
          ELSE UNCHANGED <<pc, alert>>

\* the catch block of processJob
CatchJobError(j, message) ==
    WorkerContinues(j, SetFailed(expansionJobs, initialJobs[j].id, message))

\* the job's getFileContent returns: generateFileForBlueprint is called
FetchReturn(j) ==
    /\ j \in DOMAIN proc
    /\ proc[j].pc = "fetch"
    /\ proc' = [proc EXCEPT ![j].pc = "stream"]
    /\ genLog' = [genLog EXCEPT ![j] = @ + 1]
    /\ UNCHANGED <<selectedFiles, isExpansionModalOpen, isExpanding, expansionJobs,
                   alert, pc, seedFileKeys, plan, initialJobs, taskQueue, returned,
                   dequeueLog, fetchLog, commitLog, faults, chunks, scenario, sessionVars, commit, editorVars, closed, edit, currentBranchByRepo, closure, bulkVars>>

\* the job's getFileContent throws
FetchThrow(j) ==
    /\ j \in DOMAIN proc
    /\ proc[j].pc = "fetch"
    /\ faults < scenario.faults
    /\ faults' = faults + 1
    /\ CatchJobError(j, "fetch failed")
    /\ UNCHANGED <<selectedFiles, isExpansionModalOpen, isExpanding,
                   seedFileKeys, plan, initialJobs, genLog, commitLog, chunks, scenario, sessionVars, commit, editorVars, closed, edit, currentBranchByRepo, closure, bulkVars>>

\* variant of handleChunk that keeps the last fragment only
Overwrite(newContent, chunk) == chunk

\* newContent += chunk
Aggregate(newContent, chunk) == newContent \o chunk

\* the stream delivers a chunk: `if (text) onChunk(text)`, then handleChunk
StreamChunk(j, text) ==
    /\ j \in DOMAIN proc
    /\ proc[j].pc = "stream"
    /\ chunks < scenario.chunks
    /\ chunks' = chunks + 1
    /\ LET newContent == IF text # <<>>
                          THEN Aggregate(proc[j].newContent, text)
                          ELSE proc[j].newContent
       IN /\ proc' = [proc EXCEPT ![j].newContent = newContent,
                                  ![j].delivered = Append(@, text)]
          /\ expansionJobs' =
                IF text # <<>>
                THEN SetContent(expansionJobs, initialJobs[j].id, newContent)
                ELSE expansionJobs
    /\ UNCHANGED <<selectedFiles, isExpansionModalOpen, isExpanding,
                   alert, pc, seedFileKeys, plan, initialJobs, taskQueue, returned,
                   dequeueLog, fetchLog, genLog, commitLog, faults, scenario, sessionVars, commit, editorVars, closed, edit, currentBranchByRepo, closure, bulkVars>>

\* the stream ends: empty content throws, otherwise the commit is issued
StreamEnd(j) ==
    /\ j \in DOMAIN proc
    /\ proc[j].pc = "stream"
    /\ IF Trim(proc[j].newContent) = <<>>
       THEN /\ CatchJobError(j, "AI returned empty content.")
            /\ UNCHANGED commitLog
       ELSE /\ expansionJobs' = SetStatus(expansionJobs, initialJobs[j].id, "committing")
            /\ proc' = [proc EXCEPT ![j].pc = "commit"]
            /\ commitLog' = [commitLog EXCEPT ![j] =
                                Append(@, [branch  |-> JobBranch,
                                           path    |-> initialJobs[j].newFilePath,
                                           content |-> proc[j].newContent,
                                           sha     |-> "none"])]
            /\ UNCHANGED <<taskQueue, returned, dequeueLog, fetchLog, pc, alert>>
    /\ UNCHANGED <<selectedFiles, isExpansionModalOpen, isExpanding,
                   seedFileKeys, plan, initialJobs, genLog, faults, chunks, scenario, sessionVars, commit, editorVars, closed, edit, currentBranchByRepo, closure, bulkVars>>

\* generateCodeEditStream throws `AI request failed: ...`
StreamThrow(j) ==
    /\ j \in DOMAIN proc
    /\ proc[j].pc = "stream"
    /\ faults < scenario.faults
    /\ faults' = faults + 1
    /\ CatchJobError(j, "AI request failed")
    /\ UNCHANGED <<selectedFiles, isExpansionModalOpen, isExpanding,
                   seedFileKeys, plan, initialJobs, genLog, commitLog, chunks, scenario, sessionVars, commit, editorVars, closed, edit, currentBranchByRepo, closure, bulkVars>>

\* createOrUpdateFile returns
CommitReturn(j) ==
    /\ j \in DOMAIN proc
    /\ proc[j].pc = "commit"
    /\ WorkerContinues(j, SetStatus(expansionJobs, initialJobs[j].id, "success"))
    /\ UNCHANGED <<selectedFiles, isExpansionModalOpen, isExpanding,
                   seedFileKeys, plan, initialJobs, genLog, commitLog, faults, chunks, scenario, sessionVars, commit, editorVars, closed, edit, currentBranchByRepo, closure, bulkVars>>

\* createOrUpdateFile throws
CommitThrow(j) ==
    /\ j \in DOMAIN proc
    /\ proc[j].pc = "commit"
    /\ faults < scenario.faults
    /\ faults' = faults + 1
    /\ CatchJobError(j, "commit failed")
    /\ UNCHANGED <<selectedFiles, isExpansionModalOpen, isExpanding,
                   seedFileKeys, plan, initialJobs, genLog, commitLog, chunks, scenario, sessionVars, commit, editorVars, closed, edit, currentBranchByRepo, closure, bulkVars>>

\* variant of onClose that also empties the task queue of the run
CloseAndCancel ==
    /\ isExpanding
    /\ isExpanding' = FALSE
    /\ taskQueue' = <<>>
    /\ UNCHANGED <<selectedFiles, isExpansionModalOpen, expansionJobs, alert, pc,
                   seedFileKeys, plan, initialJobs, proc, returned,
                   dequeueLog, fetchLog, genLog, commitLog, faults, chunks, scenario, sessionVars, commit, editorVars, closed, edit, currentBranchByRepo, closure, bulkVars>>

\* ExpansionProgress onClose
CloseProgress ==
    /\ isExpanding
    /\ isExpanding' = FALSE
    /\ UNCHANGED <<selectedFiles, isExpansionModalOpen, expansionJobs, alert, pc,
                   seedFileKeys, plan, initialJobs, taskQueue, proc, returned,
                   dequeueLog, fetchLog, genLog, commitLog, faults, chunks, scenario, sessionVars, commit, editorVars, closed, edit, currentBranchByRepo, closure, bulkVars>>

----------------------------------------------------------------------------
(* Bulk edit run *)

BulkCompleteAlert == [type |-> "success", message |-> "Bulk edit complete!"]
BulkFailedAlert == [type |-> "error", message |-> "Bulk edit failed"]
SkippingFileAlert == [type |-> "error", message |-> "Skipping file"]

\* handleStartBulkEdit
HandleStartBulkEdit ==
    /\ scenario.app = "bulk"
    /\ bulkEditRepo = "null"
    /\ bulk.pc = "idle"
    /\ bulkEditRepo' = "o/r"
    /\ UNCHANGED <<expansionVars, alert, faults, chunks, scenario, sessionVars, commit, editorVars, closed, edit, currentBranchByRepo, closure,
                   isLoading, loadingMessage, bulk, bulkLog>>

\* BulkAiEditModal onClose by the user (Cancel is disabled while loading)
CloseBulkModal ==
    /\ bulkEditRepo # "null"
    /\ ~isLoading
    /\ bulk.pc = "idle"
    /\ bulkEditRepo' = "null"
    /\ UNCHANGED <<expansionVars, alert, faults, chunks, scenario, sessionVars, commit, editorVars, closed, edit, currentBranchByRepo, closure,
                   isLoading, loadingMessage, bulk, bulkLog>>

\* handleBulkEditSubmit up to `await getBranch`
HandleBulkEditSubmit ==
    /\ bulkEditRepo # "null"
    /\ ~isLoading
    /\ bulk.pc = "idle"
    /\ isLoading' = TRUE
    /\ loadingMessage' = "Fetching base branch info..."
    /\ bulk' = [bulk EXCEPT !.pc = "getBranch"]
    /\ UNCHANGED <<expansionVars, alert, faults, chunks, scenario, sessionVars, commit, editorVars, closed, edit, currentBranchByRepo, closure, bulkEditRepo, bulkLog>>

\* the finally block, then BulkAiEditModal's handleSubmit calls onClose()
BulkFinally(b) ==
    /\ isLoading' = FALSE
    /\ loadingMessage' = ""
    /\ bulkEditRepo' = "null"
    /\ bulk' = [b EXCEPT !.pc = "done"]

\* the for loop from its head: the next file's getFileContent is issued, or
\* the loop is over and the completion alert is shown
BulkLoop(b, log, i, lastAlert) ==
    IF i <= Len(b.filePaths)
    THEN /\ bulk' = [b EXCEPT !.pc = "fetch", !.i = i, !.newContent = <<>>]
         /\ loadingMessage' = "Fetching"
         /\ bulkLog' = [log EXCEPT !.fetches =
                           Append(@, [path |-> b.filePaths[i], branch |-> DefaultBranch])]
         /\ alert' = lastAlert
         /\ UNCHANGED <<isLoading, bulkEditRepo>>
    ELSE /\ alert' = BulkCompleteAlert
         /\ bulkLog' = log
         /\ BulkFinally([b EXCEPT !.i = i])

\* variant of the outer catch block that returns without the finally block
AbortWithoutFinally ==
    /\ alert' = BulkFailedAlert
    /\ bulk' = [bulk EXCEPT !.pc = "done"]
    /\ bulkEditRepo' = "null"
    /\ UNCHANGED <<isLoading, loadingMessage, bulkLog>>

\* the outer catch block
BulkAbort ==
    /\ alert' = BulkFailedAlert
    /\ BulkFinally(bulk)
    /\ UNCHANGED bulkLog

\* the inner catch block: the file is given up, the loop goes on
CatchFileError ==
    BulkLoop(bulk, [bulkLog EXCEPT !.failed = Append(@, bulk.filePaths[bulk.i])],
             bulk.i + 1, SkippingFileAlert)

GetBranchReturn ==
    /\ bulk.pc = "getBranch"
    /\ bulk' = [bulk EXCEPT !.pc = "createBranch"]
    /\ loadingMessage' = "Creating new branch"
    /\ bulkLog' = [bulkLog EXCEPT !.branches =
                      Append(@, [name |-> NewBranchName, from |-> DefaultBranch])]
    /\ UNCHANGED <<expansionVars, alert, faults, chunks, scenario, sessionVars, commit, editorVars, closed, edit, currentBranchByRepo, closure, bulkEditRepo, isLoading>>

GetBranchThrow ==
    /\ bulk.pc = "getBranch"
    /\ faults < scenario.faults
    /\ faults' = faults + 1
    /\ BulkAbort
    /\ UNCHANGED <<expansionVars, chunks, scenario, sessionVars, commit, editorVars, closed, edit, currentBranchByRepo, closure>>

\* createBranch returns: getAllFilePaths, then the loop starts
CreateBranchReturn ==
    /\ bulk.pc = "createBranch"
    /\ BulkLoop([bulk EXCEPT !.filePaths = getAllFilePaths(scenario.tree)],
                bulkLog, 1, alert)
    /\ UNCHANGED <<expansionVars, faults, chunks, scenario, sessionVars, commit, editorVars, closed, edit, currentBranchByRepo, closure>>

CreateBranchThrow ==
    /\ bulk.pc = "createBranch"
    /\ faults < scenario.faults
    /\ faults' = faults + 1
    /\ BulkAbort
    /\ UNCHANGED <<expansionVars, chunks, scenario, sessionVars, commit, editorVars, closed, edit, currentBranchByRepo, closure>>

\* getFileContent returns: bulkEditFileWithAI is called with newContent = ''
BulkFetchReturn(content) ==
    /\ bulk.pc = "fetch"
    /\ bulk' = [bulk EXCEPT !.pc = "stream",
                            !.fileContent = [path |-> bulk.filePaths[bulk.i],
                                             content |-> content,
                                             sha |-> ShaOf(content)]]
    /\ loadingMessage' = "AI editing"
    /\ chunks' = 0
    /\ bulkLog' = [bulkLog EXCEPT !.edits = Append(@, bulk.filePaths[bulk.i])]
    /\ UNCHANGED <<expansionVars, alert, faults, scenario, sessionVars, commit, editorVars, closed, edit, currentBranchByRepo, closure, bulkEditRepo, isLoading>>

BulkFetchThrow ==
    /\ bulk.pc = "fetch"
    /\ faults < scenario.faults
    /\ faults' = faults + 1
    /\ CatchFileError
    /\ UNCHANGED <<expansionVars, chunks, scenario, sessionVars, commit, editorVars, closed, edit, currentBranchByRepo, closure>>

\* the stream delivers a chunk: `if (text) onChunk(text)`, newContent += chunk
BulkStreamChunk(text) ==
    /\ bulk.pc = "stream"
    /\ chunks < scenario.chunks
    /\ chunks' = chunks + 1
    /\ bulk' = [bulk EXCEPT !.newContent = @ \o text]
    /\ UNCHANGED <<expansionVars, alert, faults, scenario, sessionVars, commit, editorVars, closed, edit, currentBranchByRepo, closure,
                   bulkEditRepo, isLoading, loadingMessage, bulkLog>>

\* variant of the comparison without the trimming
SameText(newContent, original) == newContent = original

\* variant of the comparison that finds every file changed
NeverUnchanged(newContent, original) == FALSE

\* newContent.trim() === fileContent.content.trim()
Unchanged(newContent, original) == Trim(newContent) = Trim(original)

\* variant of the commit call that carries the marker of the candidate's blob
LaterSha(b) == ShaOf(b.newContent)

\* sha: fileContent.sha, the marker getFileContent returned for this file
CommitSha(b) == b.fileContent.sha

\* the stream ends: an unchanged file is skipped, a changed one is committed
BulkStreamEnd ==
    /\ bulk.pc = "stream"
    /\ LET seen == [bulkLog EXCEPT !.compared =
                       Append(@, [path      |-> bulk.fileContent.path,
                                  original  |-> bulk.fileContent.content,
                                  candidate |-> bulk.newContent])]
       IN IF Unchanged(bulk.newContent, bulk.fileContent.content)
          THEN /\ loadingMessage' = "No changes, skipping commit."
               /\ bulk' = [bulk EXCEPT !.pc = "sleep"]
               /\ bulkLog' = [seen EXCEPT !.skipped = Append(@, bulk.fileContent.path)]
          ELSE /\ loadingMessage' = "Committing changes"
               /\ bulk' = [bulk EXCEPT !.pc = "commit"]
               /\ bulkLog' = [seen EXCEPT !.commits =
                                 Append(@, [branch  |-> NewBranchName,
                                            path    |-> bulk.fileContent.path,
                                            content |-> bulk.newContent,
                                            sha     |-> CommitSha(bulk)])]
    /\ UNCHANGED <<expansionVars, alert, faults, chunks, scenario, sessionVars, commit, editorVars, closed, edit, currentBranchByRepo, closure, bulkEditRepo, isLoading>>

BulkStreamThrow ==
    /\ bulk.pc = "stream"
    /\ faults < scenario.faults
    /\ faults' = faults + 1
    /\ CatchFileError
    /\ UNCHANGED <<expansionVars, chunks, scenario, sessionVars, commit, editorVars, closed, edit, currentBranchByRepo, closure>>

\* the 50 ms pause after a skipped file, then `continue`
BulkSleepDone ==
    /\ bulk.pc = "sleep"
    /\ BulkLoop(bulk, bulkLog, bulk.i + 1, alert)
    /\ UNCHANGED <<expansionVars, faults, chunks, scenario, sessionVars, commit, editorVars, closed, edit, currentBranchByRepo, closure>>

BulkCommitReturn ==
    /\ bulk.pc = "commit"
    /\ BulkLoop(bulk, bulkLog, bulk.i + 1, alert)
    /\ UNCHANGED <<expansionVars, faults, chunks, scenario, sessionVars, commit, editorVars, closed, edit, currentBranchByRepo, closure>>

BulkCommitThrow ==
    /\ bulk.pc = "commit"
    /\ faults < scenario.faults
    /\ faults' = faults + 1
    /\ CatchFileError
    /\ UNCHANGED <<expansionVars, chunks, scenario, sessionVars, commit, editorVars, closed, edit, currentBranchByRepo, closure>>

----------------------------------------------------------------------------

----------------------------------------------------------------------------
(* Editor: typing and manual commit *)

CommitSuccessfulAlert == [type |-> "success", message |-> "Commit successful!"]
CommitFailedAlert == [type |-> "error", message |-> "Failed to commit changes"]

\* handleFileContentChange: the user types into the editor of a tab
HandleFileContentChange(key, newContent) ==
    /\ scenario.app = "commit"
    /\ NoModal
    /\ ActiveFile(openFiles, key) # 0
    /\ openFiles' = [k \in DOMAIN openFiles |->
                        IF KeyOf(openFiles[k]) = key
                        THEN [openFiles[k] EXCEPT !.editedContent = newContent]
                        ELSE openFiles[k]]
    /\ UNCHANGED <<expansionVars, bulkVars, activeFileKey, branchesByRepo, opening,
                   currentBranchByRepo, alert, faults, chunks, scenario, sessionVars,
                   commit, edit, closure, closed>>

\* handleCommit up to `await createOrUpdateFile`; the button is disabled
\* while isLoading
HandleCommit ==
    /\ scenario.app = "commit"
    /\ NoModal
    /\ ~isLoading
    /\ token # "null"
    /\ commit.pc \in {"idle", "done"}
    /\ ActiveFile(openFiles, activeFileKey) # 0
    /\ LET activeFile == openFiles[ActiveFile(openFiles, activeFileKey)]
           currentBranch == currentBranchByRepo[activeFile.repoFullName]
       IN /\ currentBranch # ""
          /\ commit' = [pc          |-> "commit",
                        key         |-> activeFileKey,
                        branch      |-> currentBranch,
                        content     |-> activeFile.editedContent,
                        sha         |-> activeFile.sha,
                        updatedFile |-> CommitIdle.updatedFile]
    /\ isLoading' = TRUE
    /\ loadingMessage' = "Committing changes..."
    /\ UNCHANGED <<expansionVars, bulkEditRepo, bulk, bulkLog, editorVars,
                   currentBranchByRepo, alert, faults, chunks, scenario, sessionVars,
                   edit, closure, closed>>

\* createOrUpdateFile returns: getFileContent is awaited
SaveReturn ==
    /\ commit.pc = "commit"
    /\ commit' = [commit EXCEPT !.pc = "refetch"]
    /\ UNCHANGED <<expansionVars, bulkVars, editorVars, currentBranchByRepo, alert,
                   faults, chunks, scenario, sessionVars, edit, closure, closed>>

\* variant in which the update goes to the file that is active when the
\* re-fetch returns
LiveKey == activeFileKey

\* activeFileKey as handleCommit's closure holds it
CommitKey == commit.key

\* getFileContent returns: the file of the commit is replaced in openFiles,
\* then the finally block
RefetchReturn(content) ==
    /\ commit.pc = "refetch"
    /\ content \in Refetched(commit.content)
    /\ LET updatedFile == [content |-> content, sha |-> ShaOf(content)]
       IN /\ openFiles' = [k \in DOMAIN openFiles |->
                              IF KeyOf(openFiles[k]) = CommitKey
                              THEN [openFiles[k] EXCEPT
                                       !.content = updatedFile.content,
                                       !.editedContent = updatedFile.content,
                                       !.sha = updatedFile.sha]
                              ELSE openFiles[k]]
          /\ commit' = [commit EXCEPT !.pc = "done", !.updatedFile = updatedFile]
    /\ alert' = CommitSuccessfulAlert
    /\ isLoading' = FALSE
    /\ loadingMessage' = ""
    /\ UNCHANGED <<expansionVars, bulkEditRepo, bulk, bulkLog, activeFileKey,
                   branchesByRepo, opening, currentBranchByRepo, faults, chunks,
                   scenario, sessionVars, edit, closure, closed>>

\* createOrUpdateFile or getFileContent throws: catch, then finally
CommitCatch ==
    /\ faults < scenario.faults
    /\ faults' = faults + 1
    /\ commit' = [commit EXCEPT !.pc = "done"]
    /\ alert' = CommitFailedAlert
    /\ isLoading' = FALSE
    /\ loadingMessage' = ""
    /\ UNCHANGED <<expansionVars, bulkEditRepo, bulk, bulkLog, editorVars,
                   currentBranchByRepo, chunks, scenario, sessionVars, edit, closure,
                   closed>>

SaveThrow ==
    /\ commit.pc = "commit"
    /\ CommitCatch

RefetchThrow ==
    /\ commit.pc = "refetch"
    /\ CommitCatch

----------------------------------------------------------------------------
(* Session: handleTokenSubmit *)

LoadedAlert == [type |-> "success", message |-> "Successfully loaded all repositories."]
LoginFailedAlert == [type |-> "error", message |-> "Login failed."]

\* the finally block of handleTokenSubmit
LoginFinally ==
    /\ isLoading' = FALSE
    /\ loadingMessage' = ""

\* Promise.all(repoPromises) resolved: the file tree is published
LoginComplete(l) ==
    /\ fileTree' = l.newFileTree
    /\ alert' = LoadedAlert
    /\ login' = [l EXCEPT !.pc = "done"]
    /\ LoginFinally
    /\ UNCHANGED token

\* handleTokenSubmit up to `await fetchAllRepos`; an empty token returns at once
HandleTokenSubmit(submittedToken) ==
    /\ scenario.app = "login"
    /\ token = "null"
    /\ login.pc \in {"idle", "done"}
    /\ IF submittedToken = ""
       THEN UNCHANGED <<token, login, isLoading, loadingMessage>>
       ELSE /\ token' = submittedToken
            /\ isLoading' = TRUE
            /\ loadingMessage' = "Fetching repositories..."
            /\ login' = [LoginIdle EXCEPT !.pc = "repos"]
    /\ UNCHANGED <<expansionVars, bulkEditRepo, bulk, bulkLog, editorVars, fileTree,
                   currentBranchByRepo, alert, faults, chunks, scenario, commit, edit,
                   closure, closed>>

\* fetchAllRepos returns: every repository is listed with an empty tree and
\* its fetchRepoTree is awaited
FetchAllReposReturn(repos) ==
    /\ login.pc = "repos"
    /\ LET l == [login EXCEPT !.pc = "trees", !.repos = repos, !.pending = repos,
                              !.newFileTree = [r \in repos |-> <<>>]]
       IN IF repos = {}
          THEN LoginComplete(l)
          ELSE /\ login' = l
               /\ loadingMessage' = "Processing"
               /\ UNCHANGED <<token, fileTree, alert, isLoading>>
    /\ UNCHANGED <<expansionVars, bulkEditRepo, bulk, bulkLog, editorVars,
                   currentBranchByRepo, faults, chunks, scenario, commit, edit, closure,
                   closed>>

\* fetchAllRepos throws: the outer catch block resets the token
FetchAllReposThrow ==
    /\ login.pc = "repos"
    /\ faults < scenario.faults
    /\ faults' = faults + 1
    /\ token' = "null"
    /\ alert' = LoginFailedAlert
    /\ login' = [login EXCEPT !.pc = "done"]
    /\ LoginFinally
    /\ UNCHANGED <<expansionVars, bulkEditRepo, bulk, bulkLog, editorVars, fileTree,
                   currentBranchByRepo, chunks, scenario, commit, edit, closure, closed>>

\* one repository's promise settles; the last one lets Promise.all resolve
TreeSettled(l) ==
    IF l.pending = {}
    THEN LoginComplete(l)
    ELSE /\ login' = l
         /\ UNCHANGED <<token, fileTree, alert, isLoading, loadingMessage>>

\* fetchRepoTree returns for a repository
FetchRepoTreeReturn(r) ==
    /\ login.pc = "trees"
    /\ r \in login.pending
    /\ TreeSettled([login EXCEPT !.pending = @ \ {r},
                                 !.newFileTree = [@ EXCEPT ![r] = RepoTree(r)]])
    /\ UNCHANGED <<expansionVars, bulkEditRepo, bulk, bulkLog, editorVars,
                   currentBranchByRepo, faults, chunks, scenario, commit, edit, closure,
                   closed>>

\* variant in which the failure of one tree rejects the whole login
RethrowTreeError(r) ==
    /\ login.pc = "trees"
    /\ r \in login.pending
    /\ faults < scenario.faults
    /\ faults' = faults + 1
    /\ token' = "null"
    /\ alert' = LoginFailedAlert
    /\ login' = [login EXCEPT !.pc = "done", !.pending = @ \ {r}, !.failed = @ \cup {r}]
    /\ LoginFinally
    /\ UNCHANGED <<expansionVars, bulkEditRepo, bulk, bulkLog, editorVars, fileTree,
                   currentBranchByRepo, chunks, scenario, commit, edit, closure, closed>>

\* fetchRepoTree throws for a repository: the inner catch block, the tree
\* stays empty
FetchRepoTreeThrow(r) ==
    /\ login.pc = "trees"
    /\ r \in login.pending
    /\ faults < scenario.faults
    /\ faults' = faults + 1
    /\ TreeSettled([login EXCEPT !.pending = @ \ {r}, !.failed = @ \cup {r}])
    /\ UNCHANGED <<expansionVars, bulkEditRepo, bulk, bulkLog, editorVars,
                   currentBranchByRepo, chunks, scenario, commit, edit, closure, closed>>

Next ==
    \/ \E k \in SeedKeys, b \in BOOLEAN : HandleFileSelection(k, b)
    \/ \E b \in BOOLEAN : SetExpansionModalOpen(b)
    \/ \E key \in scenario.files : HandleOpenFile(key)
    \/ \E o \in DOMAIN opening : OpenBranchesReturn(o)
    \/ \E o \in DOMAIN opening : OpenThrow(o)
    \/ \E o \in DOMAIN opening : OpenFetchReturn(o)
    \/ \E newBranch \in scenario.branches : HandleBranchChange(newBranch)
    \/ \E keyToClose \in scenario.files : HandleCloseFile(keyToClose)
    \/ \E key \in scenario.files : HandleSetActiveFile(key)
    \/ \E key \in scenario.files, newContent \in EditedTexts :
          HandleFileContentChange(key, newContent)
    \/ HandleCommit
    \/ SaveReturn
    \/ SaveThrow
    \/ \E content \in Refetched(commit.content) : RefetchReturn(content)
    \/ RefetchThrow
    \/ \E submittedToken \in {"", "t"} : HandleTokenSubmit(submittedToken)
    \/ \E repos \in RepoLists : FetchAllReposReturn(repos)
    \/ FetchAllReposThrow
    \/ \E r \in Repos : FetchRepoTreeReturn(r)
    \/ \E r \in Repos : FetchRepoTreeThrow(r)
    \/ HandleExpansionSubmit
    \/ \E i \in DOMAIN plan : SeedFetchReturn(i)
    \/ \E i \in DOMAIN plan : SeedFetchThrow(i)
    \/ \E i \in DOMAIN plan, items \in scenario.blueprints : BlueprintReturn(i, items)
    \/ \E i \in DOMAIN plan : BlueprintThrow(i)
    \/ \E j \in DOMAIN proc : FetchReturn(j)
    \/ \E j \in DOMAIN proc : FetchThrow(j)
    \/ \E j \in DOMAIN proc, text \in scenario.fragments : StreamChunk(j, text)
    \/ \E j \in DOMAIN proc : StreamEnd(j)
    \/ \E j \in DOMAIN proc : StreamThrow(j)
    \/ \E j \in DOMAIN proc : CommitReturn(j)
    \/ \E j \in DOMAIN proc : CommitThrow(j)
    \/ CloseProgress
    \/ HandleStartBulkEdit
    \/ CloseBulkModal
    \/ HandleBulkEditSubmit
    \/ GetBranchReturn
    \/ GetBranchThrow
    \/ CreateBranchReturn
    \/ CreateBranchThrow
    \/ \E content \in Originals : BulkFetchReturn(content)
    \/ BulkFetchThrow
    \/ \E text \in scenario.fragments : BulkStreamChunk(text)
    \/ BulkStreamEnd
    \/ BulkStreamThrow
    \/ BulkSleepDone
    \/ BulkCommitReturn
    \/ BulkCommitThrow

Spec == Init /\ [][Next]_vars

----------------------------------------------------------------------------
(* Single-shot edit call: editCodeWithAI *)

appVars == <<expansionVars, bulkVars, editorVars, alert, faults, chunks, scenario,
            sessionVars, commit,
            currentBranchByRepo, closure, closed>>

\* editCodeWithAI is called: generateContent is awaited
CallEditCodeWithAI ==
    /\ edit.pc = "idle"
    /\ edit' = [edit EXCEPT !.pc = "awaiting"]
    /\ UNCHANGED appVars

\* generateContent returns: blank text throws, other text is cleaned of fences
GenerateContentReturn(response) ==
    /\ edit.pc = "awaiting"
    /\ edit' = IF Trim(response.text) = <<>>
               THEN [edit EXCEPT !.pc = "thrown", !.response = response,
                                 !.error = "AI request failed: AI returned empty content."]
               ELSE [edit EXCEPT !.pc = "returned", !.response = response,
                                 !.cleanedCode = CleanFences(response.text)]
    /\ UNCHANGED appVars

\* generateContent throws
GenerateContentThrow ==
    /\ edit.pc = "awaiting"
    /\ edit' = [edit EXCEPT !.pc = "thrown", !.error = "AI request failed"]
    /\ UNCHANGED appVars

EditNext ==
    \/ CallEditCodeWithAI
    \/ \E response \in Responses : GenerateContentReturn(response)
    \/ GenerateContentThrow

EditInit == Init /\ scenario = BulkRun(<<>>)

EditSpec == EditInit /\ [][EditNext]_vars

----------------------------------------------------------------------------
(* Bulk edits one after the other *)

\* most bulk edits of one session
MaxRuns == 2

\* a bulk edit went through its loop and showed its closing alert
BulkCompleted == bulk.pc = "done" /\ bulk.i > Len(bulk.filePaths)

\* how the files of the bulk edit that is over ended: committed, skipped as
\* unchanged, given up in the inner catch block
BulkCounts ==
    [success |-> Len(bulk.filePaths) - Len(bulkLog.skipped) - Len(bulkLog.failed),
     skipped |-> Len(bulkLog.skipped),
     failed  |-> Len(bulkLog.failed)]

\* handleStartBulkEdit after a bulk edit that is over: the modal opens for a
\* new run, whose handleBulkEditSubmit starts with fresh locals; the alert
\* of the run before stays until the next showAlert
StartBulkEditAgain ==
    /\ bulk.pc = "done"
    /\ bulkEditRepo = "null"
    /\ Len(closed) + 1 < MaxRuns
    /\ closed' = Append(closed, [completed |-> BulkCompleted,
                                 counts    |-> BulkCounts,
                                 summary   |-> alert])
    /\ bulkEditRepo' = "o/r"
    /\ bulk' = BulkIdle
    /\ bulkLog' = NoCalls
    /\ faults' = 0
    /\ chunks' = 0
    /\ UNCHANGED <<expansionVars, editorVars, alert, isLoading, loadingMessage,
                   scenario, sessionVars, commit, edit, currentBranchByRepo, closure>>

SummaryNext ==
    \/ HandleStartBulkEdit
    \/ CloseBulkModal
    \/ HandleBulkEditSubmit
    \/ GetBranchReturn
    \/ GetBranchThrow
    \/ CreateBranchReturn
    \/ CreateBranchThrow
    \/ \E content \in Originals : BulkFetchReturn(content)
    \/ BulkFetchThrow
    \/ \E text \in scenario.fragments : BulkStreamChunk(text)
    \/ BulkStreamEnd
    \/ BulkStreamThrow
    \/ BulkSleepDone
    \/ BulkCommitReturn
    \/ BulkCommitThrow
    \/ StartBulkEditAgain

SummaryInit == Init /\ scenario = BulkRun(SmallTree)

SummarySpec == SummaryInit /\ [][SummaryNext]_vars

\* A gateway call of some pipeline in flight returns or throws
GatewaySettles ==
    \E j \in DOMAIN proc :
        \/ FetchReturn(j)
        \/ FetchThrow(j)
        \/ StreamEnd(j)
        \/ StreamThrow(j)
        \/ CommitReturn(j)
        \/ CommitThrow(j)

\* The gateway calls are promises of the network layer: as long as a call is
\* pending, one of the pending calls eventually settles.
FairSpec == Spec /\ WF_vars(GatewaySettles)

----------------------------------------------------------------------------
(* Properties *)

\* C1: in every reachable state at most CONCURRENCY_LIMIT jobs have the status
\* 'generating' or 'committing'.
C1_AtMostLimitInProgress ==
    Cardinality({k \in DOMAIN expansionJobs :
                    expansionJobs[k].status \in {"generating", "committing"}})
        <= CONCURRENCY_LIMIT

\* C2: when all workers of the pool have returned, every job of the run has
\* one of the statuses success, skipped, failed, and none is queued,
\* generating or committing.
C2_FinishedPoolAllTerminal ==
    returned = CONCURRENCY_LIMIT =>
        /\ Len(expansionJobs) = Len(initialJobs)
        /\ \A k \in DOMAIN expansionJobs : expansionJobs[k].status \in {"success", "skipped", "failed"}

\* a finished pool with both outcomes: one job committed, another failed
C2_Witness ==
    /\ returned = CONCURRENCY_LIMIT
    /\ \E k \in DOMAIN expansionJobs : expansionJobs[k].status = "success"
    /\ \E k \in DOMAIN expansionJobs : expansionJobs[k].status = "failed"

\* C3: a failing pipeline never keeps another job from being dequeued and
\* processed.  In the pool every worker is either running a pipeline or has
\* returned, and a worker returns only when the queue is empty; a pool that
\* is over has run every job and shows the completion alert, not an abort.
\* In the bulk-edit loop every file up to the current one has been fetched,
\* whatever happened to the files before it, and a loop that is over has
\* gone through every file and shows the completion alert.
C3_FailureDoesNotStopOthers ==
    /\ pc \in {"pool", "done"} =>
          /\ Cardinality({j \in DOMAIN proc : proc[j].pc \in {"fetch", "stream", "commit"}})
                + returned = CONCURRENCY_LIMIT
          /\ returned > 0 => taskQueue = <<>>
    /\ pc = "done" =>
          /\ alert = CompletedAlert
          /\ \A j \in DOMAIN initialJobs : Len(fetchLog[j]) = 1 /\ proc[j].pc = "done"
    /\ bulk.i >= 1 =>
          /\ Len(bulkLog.fetches) = IF bulk.i <= Len(bulk.filePaths)
                                    THEN bulk.i ELSE Len(bulk.filePaths)
          /\ \A k \in DOMAIN bulkLog.fetches :
                bulkLog.fetches[k].path = bulk.filePaths[k]
          /\ bulk.pc = "done" =>
                /\ bulk.i = Len(bulk.filePaths) + 1
                /\ alert = BulkCompleteAlert

\* the first job's fetch threw while the other four first jobs are still
\* being fetched, and the sixth job has since been dequeued and fetched
C3_Witness ==
    /\ pc = "pool"
    /\ Len(initialJobs) > CONCURRENCY_LIMIT
    /\ expansionJobs[1].status = "failed"
    /\ expansionJobs[1].error = "fetch failed"
    /\ \A k \in 2..CONCURRENCY_LIMIT : proc[k].pc = "fetch"
    /\ proc[CONCURRENCY_LIMIT + 1].pc = "stream"

\* C4: once every seed's planning has settled and at least one seed's
\* planning succeeded with blueprint items, the run is not aborted: its jobs
\* are exactly the blueprint jobs of the seeds whose planning succeeded.
C4_PlanningFailureIsolated ==
    ( /\ plan # <<>>
      /\ \A i \in DOMAIN plan : plan[i].pc \in {"ok", "failed"}
      /\ \E i \in DOMAIN plan : plan[i].pc = "ok" /\ plan[i].items # <<>> )
    => /\ pc \in {"pool", "done"}
       /\ initialJobs =
             Flat([i \in DOMAIN plan |->
                     IF plan[i].pc = "ok"
                     THEN BlueprintJobs(seedFileKeys[i], plan[i].items)
                     ELSE <<>>])

\* C5: once every seed's planning has settled and no seed has a blueprint
\* item, the run is aborted with an error alert, the progress view is
\* dismissed, there is no job and no gateway call of a pipeline was issued.
C5_NoPlanAborts ==
    ( /\ plan # <<>>
      /\ \A i \in DOMAIN plan : plan[i].pc \in {"ok", "failed"}
      /\ \A i \in DOMAIN plan : plan[i].pc = "ok" => plan[i].items = <<>> )
    => /\ pc = "aborted"
       /\ alert.type = "error"
       /\ ~isExpanding
       /\ initialJobs = <<>> /\ expansionJobs = <<>> /\ proc = <<>>
       /\ dequeueLog = <<>> /\ fetchLog = <<>> /\ commitLog = <<>>

\* three seeds, each with an empty blueprint list
C5_Witness ==
    /\ Len(plan) = Cardinality(SeedKeys)
    /\ \A i \in DOMAIN plan : plan[i].pc = "ok" /\ plan[i].items = <<>>
    /\ pc = "aborted"
    /\ alert = PlanFailedAlert

\* C6: every job of the task queue is dequeued exactly once: no job is
\* dequeued twice, a job is either still in the queue or dequeued, no
\* pipeline is started twice, and none is left when the pool is over.
C6_DequeuedExactlyOnce ==
    pc \in {"pool", "done"} =>
        /\ \A a, b \in DOMAIN dequeueLog : dequeueLog[a] = dequeueLog[b] => a = b
        /\ \A a, b \in DOMAIN taskQueue : taskQueue[a] = taskQueue[b] => a = b
        /\ \A j \in DOMAIN initialJobs : InSeq(j, dequeueLog) # InSeq(j, taskQueue)
        /\ \A j \in DOMAIN initialJobs :
              Len(fetchLog[j]) = (IF InSeq(j, dequeueLog) THEN 1 ELSE 0)
        /\ pc = "done" => taskQueue = <<>> /\ Len(dequeueLog) = Len(initialJobs)

\* a pool with more jobs than workers is over
C6_Witness ==
    /\ pc = "done"
    /\ Len(dequeueLog) > CONCURRENCY_LIMIT

\* C7: for jobs i before j of the job list, job i leaves the status 'queued'
\* no later than job j: no job is past 'queued' while an earlier one is
\* still 'queued'.
C7_QueuedLeftInOrder ==
    \A i, j \in DOMAIN expansionJobs :
        (i < j /\ expansionJobs[j].status # "queued")
            => expansionJobs[i].status # "queued"

\* C8: if every gateway call returns or throws, a pool that has started ends:
\* the queue is empty, every job is terminal and the completion alert is shown.
C8_RunTerminates ==
    (pc = "pool") ~>
        ( /\ pc = "done"
          /\ taskQueue = <<>>
          /\ \A k \in DOMAIN expansionJobs : expansionJobs[k].status \in {"success", "skipped", "failed"}
          /\ alert = CompletedAlert )

\* a run with more jobs than workers has ended, one of its jobs failed
C8_Witness ==
    /\ pc = "done"
    /\ alert = CompletedAlert
    /\ Len(initialJobs) > CONCURRENCY_LIMIT
    /\ taskQueue = <<>>
    /\ \E k \in DOMAIN expansionJobs : expansionJobs[k].status = "failed"

\* C9: while the progress view of a submitted run is open, isComplete is
\* true only if the pool has drained its queue and every pipeline settled.
C9_CompleteOnlyWhenSettled ==
    (pc # "idle" /\ isExpanding /\ IsComplete(expansionJobs)) =>
        /\ returned = CONCURRENCY_LIMIT
        /\ taskQueue = <<>>
        /\ \A j \in DOMAIN proc : proc[j].pc = "done"

\* C10: a file whose candidate equals its original after trimming both is
\* not committed and is skipped: a commit is only ever issued with content
\* that differs, after trimming, from the original the sha belongs to; a file
\* that was skipped has no commit; and right after the comparison the loop
\* is in the pause of a skipped file exactly if the two texts trim alike.
C10_UnchangedNotCommitted ==
    /\ \A k \in DOMAIN bulkLog.commits : \A o \in Originals :
          bulkLog.commits[k].sha = ShaOf(o)
              => Trim(bulkLog.commits[k].content) # Trim(o)
    /\ \A a \in DOMAIN bulkLog.skipped : \A k \in DOMAIN bulkLog.commits :
          bulkLog.commits[k].path # bulkLog.skipped[a]
    /\ bulk.pc \in {"sleep", "commit"} =>
          ( (bulk.pc = "sleep")
              <=> (Trim(bulk.newContent) = Trim(bulk.fileContent.content)) )
    /\ bulk.pc = "sleep" =>
          /\ bulkLog.skipped # <<>>
          /\ bulkLog.skipped[Len(bulkLog.skipped)] = bulk.fileContent.path

\* a candidate that differs from the original only in trailing white space
\* was skipped
C10_Witness ==
    /\ bulk.pc = "sleep"
    /\ bulk.fileContent.content = <<"x", " ">>
    /\ bulk.newContent = <<"x">>
    /\ bulkLog.commits = <<>>

\* C11: in a bulk edit that went through all its files without a gateway
\* failure, every file was compared once, a file whose candidate differs
\* from its original (after trimming both) has exactly one commit call, a
\* file whose candidate does not has none, and there is no other commit call.
C11_OneCommitPerChangedFile ==
    (bulk.pc = "done" /\ bulk.i >= 1 /\ faults = 0) =>
        /\ Len(bulkLog.compared) = Len(bulk.filePaths)
        /\ \A k \in DOMAIN bulkLog.compared :
              /\ bulkLog.compared[k].path = bulk.filePaths[k]
              /\ Cardinality({c \in DOMAIN bulkLog.commits :
                                 bulkLog.commits[c].path = bulk.filePaths[k]})
                    = IF Trim(bulkLog.compared[k].candidate)
                             # Trim(bulkLog.compared[k].original)
                      THEN 1 ELSE 0
        /\ Len(bulkLog.commits)
              = Cardinality({k \in DOMAIN bulkLog.compared :
                                Trim(bulkLog.compared[k].candidate)
                                    # Trim(bulkLog.compared[k].original)})

\* two files, no failure: the first unchanged up to white space, the second
\* changed; one commit call, for the second
C11_Witness ==
    /\ bulk.pc = "done"
    /\ faults = 0
    /\ Len(bulkLog.compared) = 2
    /\ bulkLog.compared[1].original = <<"x", " ">>
    /\ bulkLog.compared[1].candidate = <<"x">>
    /\ bulkLog.compared[2].original = <<"x">>
    /\ bulkLog.compared[2].candidate = <<"x", "x">>
    /\ Len(bulkLog.commits) = 1
    /\ bulkLog.commits[1].path = bulk.filePaths[2]

\* C12: for a file whose original is not empty, an aggregate that is empty
\* or white space only is never committed: no commit call carries blank
\* content for such a file.
C12_BlankNeverCommitted ==
    \A c \in DOMAIN bulkLog.commits : \A o \in Originals :
        (bulkLog.commits[c].sha = ShaOf(o) /\ o # <<>>)
            => Trim(bulkLog.commits[c].content) # <<>>

\* C13: an expansion job whose stream ended with an empty or white-space
\* aggregate ends 'failed' with the empty-content error and without a
\* create-or-update call.  Stated for the runs without a gateway failure, at
\* the end of the pool.
C13_EmptyStreamFails ==
    (pc = "done" /\ faults = 0) =>
        \A j \in DOMAIN proc :
            Trim(proc[j].newContent) = <<>> =>
                /\ expansionJobs[j].status = "failed"
                /\ expansionJobs[j].error = "AI returned empty content."
                /\ commitLog[j] = <<>>

\* C14: an expansion job that issued a create-or-update call issued exactly
\* one, for its newFilePath, with its aggregate and without a revision
\* marker, and ends 'success', or 'failed' with the error of the call; and in
\* a run without a gateway failure every job with a non-blank aggregate
\* issued the call and ends 'success'.  Stated at the end of the pool.
C14_NewFileCommittedOnce ==
    pc = "done" =>
        \A j \in DOMAIN proc :
            /\ commitLog[j] # <<>> =>
                  /\ Len(commitLog[j]) = 1
                  /\ commitLog[j][1].path = initialJobs[j].newFilePath
                  /\ commitLog[j][1].content = proc[j].newContent
                  /\ commitLog[j][1].sha = "none"
                  /\ \/ expansionJobs[j].status = "success"
                     \/ /\ expansionJobs[j].status = "failed"
                        /\ expansionJobs[j].error = "commit failed"
            /\ (faults = 0 /\ Trim(proc[j].newContent) # <<>>) =>
                  /\ commitLog[j] # <<>>
                  /\ expansionJobs[j].status = "success"

\* C19: the job list of a run never holds two jobs with the same id.
C19_JobIdsUnique ==
    \A a, b \in DOMAIN initialJobs :
        initialJobs[a].id = initialJobs[b].id => a = b

\* C20: while the job list stands, the status of each job record stays or
\* moves along queued -> generating -> committing -> success, or from
\* generating or committing to failed; success and failed are never left.
C20_ForwardOnly ==
    [][ DOMAIN expansionJobs' = DOMAIN expansionJobs =>
          \A k \in DOMAIN expansionJobs :
              \/ expansionJobs'[k].status = expansionJobs[k].status
              \/ <<expansionJobs[k].status, expansionJobs'[k].status>> \in
                    { <<"queued", "generating">>,
                      <<"generating", "committing">>,
                      <<"generating", "failed">>,
                      <<"committing", "success">>,
                      <<"committing", "failed">> } ]_vars

\* C17: in a bulk edit the new branch is created at most once; a file is
\* fetched, edited or committed only after that one createBranch call has
\* returned; and every commit call names the branch that was created, which
\* is not the default branch.
C17_BranchCreatedOnceFirst ==
    /\ Len(bulkLog.branches) <= 1
    /\ (bulkLog.fetches # <<>> \/ bulkLog.edits # <<>> \/ bulkLog.commits # <<>>) =>
          /\ Len(bulkLog.branches) = 1
          /\ bulk.i >= 1
          /\ bulk.pc \notin {"idle", "getBranch", "createBranch"}
    /\ \A c \in DOMAIN bulkLog.commits :
          /\ bulkLog.commits[c].branch = bulkLog.branches[1].name
          /\ bulkLog.commits[c].branch # DefaultBranch

\* a bulk edit is over with two commit calls and one branch created
C17_Witness ==
    /\ bulk.pc = "done"
    /\ Len(bulkLog.branches) = 1
    /\ Len(bulkLog.commits) = 2
    /\ alert = BulkCompleteAlert

\* C15: for a response made of a leading fence line (fence, optional
\* language tag, newline), a body and a trailing fence, the cleaned code is
\* the body with surrounding white space trimmed; a response without fences
\* is returned as it is, trimmed.
C15_FencesStripped ==
    edit.pc = "returned" => edit.cleanedCode = Trim(edit.response.body)

\* C16: in the streaming pipelines the content handed to the commit call is
\* the normalized candidate: the aggregate of the stream with the wrapping
\* fences stripped and the surrounding white space trimmed.
C16_CommitsNormalizedCandidate ==
    /\ \A k \in DOMAIN bulkLog.compared : \A c \in DOMAIN bulkLog.commits :
          bulkLog.commits[c].path = bulkLog.compared[k].path
              => bulkLog.commits[c].content = CleanFences(bulkLog.compared[k].candidate)
    /\ \A j \in DOMAIN commitLog : \A c \in DOMAIN commitLog[j] :
          commitLog[j][c].content = CleanFences(proc[j].newContent)

\* C18: every fetch and every create-or-update call of a job of an expansion
\* run names the branch that was selected for the repository when the run
\* was submitted (the default branch if none was), whatever the user selects
\* while the run goes on; and the run creates no branch.
C18_RunKeepsItsBranch ==
    /\ \A j \in DOMAIN fetchLog : \A e \in DOMAIN fetchLog[j] :
          fetchLog[j][e].branch = ActiveBranch(closure, Seed1.repoFullName)
    /\ \A j \in DOMAIN commitLog : \A e \in DOMAIN commitLog[j] :
          commitLog[j][e].branch = ActiveBranch(closure, Seed1.repoFullName)
    /\ pc # "idle" => bulkLog.branches = <<>>

\* the run was submitted with no branch selected, the user then selected
\* another branch, and a job committed after that
C18_Witness ==
    /\ pc = "pool"
    /\ closure[Seed1.repoFullName] = ""
    /\ currentBranchByRepo[Seed1.repoFullName] = "dev"
    /\ \E j \in DOMAIN proc :
          /\ proc[j].pc = "commit"
          /\ commitLog[j][1].branch = DefaultBranch
    /\ \E j \in DOMAIN proc : proc[j].pc = "queued" \/ proc[j].pc = "fetch"

\* C21: an exception at any step of a job's pipeline (fetch, stream, empty
\* aggregate, commit) leaves the job 'failed' with the exception's message;
\* a job whose fetch threw has no completion call and no commit call, a job
\* whose stream threw or was empty has no commit call; and a job record has
\* an error exactly if its status is 'failed'.
C21_ExceptionFailsJob ==
    [][ /\ \A j \in DOMAIN proc :
              /\ FetchThrow(j) =>
                    /\ expansionJobs'[j].status = "failed"
                    /\ expansionJobs'[j].error = "fetch failed"
              /\ StreamThrow(j) =>
                    /\ expansionJobs'[j].status = "failed"
                    /\ expansionJobs'[j].error = "AI request failed"
              /\ CommitThrow(j) =>
                    /\ expansionJobs'[j].status = "failed"
                    /\ expansionJobs'[j].error = "commit failed"
        /\ \A j \in DOMAIN proc' :
              /\ (proc'[j].pc = "done" /\ expansionJobs'[j].error = "fetch failed")
                    => genLog'[j] = 0 /\ commitLog'[j] = <<>>
              /\ (proc'[j].pc = "done" /\ expansionJobs'[j].error
                      \in {"AI request failed", "AI returned empty content."})
                    => commitLog'[j] = <<>>
        /\ \A k \in DOMAIN expansionJobs' :
              (expansionJobs'[k].error # "null") <=> (expansionJobs'[k].status = "failed")
      ]_vars

\* C22: nothing is retried.  For each job of an expansion run at most one
\* fetch, one completion call and one commit call are ever issued, and a
\* pipeline that is over (its call threw, or it committed) stays over and
\* issues no further call.  In a bulk edit each file has at most one fetch,
\* one completion call and one commit call, and the loop never goes back to
\* a file it has left.
C22_NoRetry ==
    [][ /\ \A j \in DOMAIN proc' :
              /\ Len(fetchLog'[j]) <= 1
              /\ genLog'[j] <= 1
              /\ Len(commitLog'[j]) <= 1
        /\ \A j \in DOMAIN proc :
              proc[j].pc = "done" =>
                  /\ proc'[j] = proc[j]
                  /\ fetchLog'[j] = fetchLog[j]
                  /\ genLog'[j] = genLog[j]
                  /\ commitLog'[j] = commitLog[j]
        /\ bulk'.i >= bulk.i
        /\ \A k \in DOMAIN bulk'.filePaths :
              /\ Cardinality({e \in DOMAIN bulkLog'.fetches :
                                 bulkLog'.fetches[e].path = bulk'.filePaths[k]}) <= 1
              /\ Cardinality({e \in DOMAIN bulkLog'.edits :
                                 bulkLog'.edits[e] = bulk'.filePaths[k]}) <= 1
              /\ Cardinality({e \in DOMAIN bulkLog'.commits :
                                 bulkLog'.commits[e].path = bulk'.filePaths[k]}) <= 1
      ]_vars

\* a pool is over in which a job's commit call threw: the job has its one
\* fetch, one completion call and one commit call
C22_Witness ==
    /\ pc = "done"
    /\ \E j \in DOMAIN proc :
          /\ expansionJobs[j].status = "failed"
          /\ expansionJobs[j].error = "commit failed"
          /\ Len(fetchLog[j]) = 1
          /\ genLog[j] = 1
          /\ Len(commitLog[j]) = 1

\* C23: every commit call of a bulk edit carries the revision marker that the
\* fetch of that same file returned at the start of its pipeline: the marker
\* of the original content the candidate was compared with.
C23_CommitCarriesFetchedSha ==
    /\ \A c \in DOMAIN bulkLog.commits :
          \E k \in DOMAIN bulkLog.compared :
              /\ bulkLog.compared[k].path = bulkLog.commits[c].path
              /\ bulkLog.commits[c].sha = ShaOf(bulkLog.compared[k].original)
    /\ bulk.pc = "commit" =>
          /\ bulkLog.commits[Len(bulkLog.commits)].path = bulk.filePaths[bulk.i]
          /\ bulkLog.commits[Len(bulkLog.commits)].sha = ShaOf(bulk.fileContent.content)

\* the second file's commit call is pending: it carries the marker of the
\* content fetched for the second file, which is not that of the first file
C23_Witness ==
    /\ bulk.pc = "commit"
    /\ bulk.i = 2
    /\ Len(bulkLog.commits) = 2
    /\ bulkLog.commits[1].sha = ShaOf(<<>>)
    /\ bulkLog.commits[2].sha = ShaOf(<<"x", " ">>)

\* C24: at every moment the aggregate of a job is the concatenation, in
\* delivery order, of the non-empty fragments its own stream has delivered,
\* whatever the streams of the other jobs delivered meanwhile; and the
\* content of the job's commit call is that aggregate at stream end.
C24_AggregateIsConcatenation ==
    \A j \in DOMAIN proc :
        /\ proc[j].newContent =
              Concat(SelectSeq(proc[j].delivered, LAMBDA f : f # <<>>))
        /\ \A c \in DOMAIN commitLog[j] :
              commitLog[j][c].content =
                  Concat(SelectSeq(proc[j].delivered, LAMBDA f : f # <<>>))

\* the stream of a job delivered a blank and then a letter, and the job
\* committed the two in that order
C24_Witness ==
    \E j \in DOMAIN proc :
        /\ proc[j].delivered = << <<" ">>, <<"x">> >>
        /\ proc[j].pc = "commit"
        /\ commitLog[j][1].content = <<" ", "x">>

\* C25: while the job list stands, the generatedContent of each job record
\* only grows: its value after a step has its value before the step as a
\* prefix.
C25_ContentOnlyGrows ==
    [][ DOMAIN expansionJobs' = DOMAIN expansionJobs =>
          \A k \in DOMAIN expansionJobs :
              StartsWith(expansionJobs'[k].generatedContent,
                         expansionJobs[k].generatedContent) ]_vars

\* C26: closing the progress view cancels nothing.  If the view is closed
\* while the pool is running and every gateway call returns or throws, the
\* run still ends: every job was dequeued and its pipeline is over, every
\* job record has a terminal status, and in a run without a gateway failure
\* every job with a non-blank aggregate has its commit call.
C26_CloseCancelsNothing ==
    (pc = "pool" /\ ~isExpanding) ~>
        ( /\ pc = "done"
          /\ taskQueue = <<>>
          /\ Len(dequeueLog) = Len(initialJobs)
          /\ \A j \in DOMAIN proc :
                /\ proc[j].pc = "done"
                /\ Len(fetchLog[j]) = 1
                /\ (faults = 0 /\ Trim(proc[j].newContent) # <<>>)
                      => Len(commitLog[j]) = 1
          /\ \A k \in DOMAIN expansionJobs :
                expansionJobs[k].status \in {"success", "skipped", "failed"} )

\* the view was closed while the pool runs: a commit call is pending, other
\* jobs are being fetched and jobs are still queued
C26_Witness ==
    /\ pc = "pool"
    /\ ~isExpanding
    /\ taskQueue # <<>>
    /\ \E j \in DOMAIN proc : proc[j].pc = "commit"
    /\ \E j \in DOMAIN proc : proc[j].pc = "fetch"

\* C29: a bulk edit attempts every file of the tree exactly once, one at a
\* time, in depth-first order.  While the loop runs, the files fetched so far
\* are distinct file nodes of the tree, as many as the loop index says, and
\* only the last of them is still in work; when the loop is over the files
\* fetched are exactly the file nodes of the tree (directories excluded), in
\* depth-first order.
C29_EveryFileOnceInOrder ==
    bulk.i >= 1 =>
        /\ \A a, b \in DOMAIN bulkLog.fetches :
              bulkLog.fetches[a].path = bulkLog.fetches[b].path => a = b
        /\ \A k \in DOMAIN bulkLog.fetches :
              bulkLog.fetches[k].path \in FilePathSet(scenario.tree)
        /\ bulk.pc # "done" =>
              /\ Len(bulkLog.fetches) = bulk.i
              /\ Len(bulkLog.edits) <= bulk.i
              /\ \A k \in DOMAIN bulkLog.edits :
                    \E e \in 1..bulk.i : bulkLog.fetches[e].path = bulkLog.edits[k]
        /\ bulk.pc = "done" =>
              /\ {bulkLog.fetches[k].path : k \in DOMAIN bulkLog.fetches}
                    = FilePathSet(scenario.tree)
              /\ Len(bulkLog.fetches) = Cardinality(FilePathSet(scenario.tree))
              /\ scenario.tree = SmallTree =>
                    /\ bulkLog.fetches[1].path = "d/a"
                    /\ bulkLog.fetches[2].path = "b"

\* a bulk edit of the tree with a nested file is over: the nested file was
\* fetched first, the top-level file second
C29_Witness ==
    /\ bulk.pc = "done"
    /\ scenario.tree = SmallTree
    /\ Len(bulkLog.fetches) = 2
    /\ bulkLog.fetches[1].path = "d/a"
    /\ bulkLog.fetches[2].path = "b"

\* C30: when the user changes the branch of the active file's repository,
\* every file of that repository that was open is fetched again from the new
\* branch (its fetch is pending right after the handler, or the file is open
\* with the new branch's content), and the open files of the other
\* repositories are kept as they are.
C30_BranchChangeReloads ==
    [][ \A newBranch \in scenario.branches :
          HandleBranchChange(newBranch) =>
            LET repoToUpdate ==
                    openFiles[ActiveFile(openFiles, activeFileKey)].repoFullName
            IN /\ \A k \in DOMAIN openFiles :
                     openFiles[k].repoFullName = repoToUpdate =>
                        \/ \E o \in DOMAIN opening' :
                              /\ opening'[o].key = KeyOf(openFiles[k])
                              /\ opening'[o].branch = newBranch
                        \/ \E m \in DOMAIN openFiles' :
                              /\ KeyOf(openFiles'[m]) = KeyOf(openFiles[k])
                              /\ openFiles'[m].content =
                                    BlobAt(newBranch, openFiles[k].path)
               /\ SelectSeq(openFiles', LAMBDA f : f.repoFullName # repoToUpdate)
                     = SelectSeq(openFiles, LAMBDA f : f.repoFullName # repoToUpdate)
      ]_vars

\* C28: when a commit call of a bulk edit returns for a file that is open in
\* the editor, the open view of that file shows the committed content and
\* its revision marker.  (The jobs of an expansion run write new files,
\* which are not open.)
C28_OpenViewRefreshed ==
    [][ BulkCommitReturn =>
          \A k \in DOMAIN openFiles :
              KeyOf(openFiles[k]) = FileKey("o/r", bulk.fileContent.path) =>
                  /\ k \in DOMAIN openFiles'
                  /\ openFiles'[k].content = bulk.newContent
                  /\ openFiles'[k].sha = ShaOf(bulk.newContent) ]_vars

\* C27: the closing summary of a run tells its counts: a bulk edit that went
\* through its loop shows a closing alert that differs from the closing
\* alert of every earlier completed bulk edit whose numbers of committed,
\* skipped and failed files were not the same.
C27_SummaryTellsCounts ==
    BulkCompleted =>
        \A r \in DOMAIN closed :
            (closed[r].completed /\ closed[r].counts # BulkCounts)
                => closed[r].summary # alert

----------------------------------------------------------------------------
(* Editor: tabs *)

\* C31: after any sequence of open-file, close-file, set-active and
\* branch-change operations, activeFileKey is null or the key of a file
\* that is in openFiles.
C31_ActiveFileIsOpen ==
    activeFileKey = NullKey \/ ActiveFile(openFiles, activeFileKey) # 0

\* C32: openFiles never holds two entries with the same (repoFullName, path)
\* key, whatever the interleaving of the handleOpenFile calls; a call for a
\* file that is in openFiles only makes it active and waits for no fetch.
C32_NoDuplicateTabs ==
    [][/\ \A k, m \in DOMAIN openFiles' :
             KeyOf(openFiles'[k]) = KeyOf(openFiles'[m]) => k = m
       /\ \A key \in scenario.files :
             HandleOpenFile(key) /\ ActiveFile(openFiles, key) # 0 =>
                /\ activeFileKey' = key
                /\ opening' = opening
                /\ openFiles' = openFiles]_vars

\* C35: the loading indicator covers every operation in flight: while a
\* handleOpenFile, handleCommit or handleTokenSubmit invocation is waiting
\* for the gateway, isLoading is true, whatever the interleaving of
\* overlapping invocations.
C35_LoadingCoversInFlight ==
    (\/ opening # <<>>
     \/ commit.pc \in {"commit", "refetch"}
     \/ login.pc \in {"repos", "trees"}) => isLoading

\* C37: closing a tab that is not the active one leaves activeFileKey as it
\* is; closing the active tab at index i (counted from 0) shows the file at
\* index max(0, i - 1) of the remaining list, or sets activeFileKey to null
\* when no file remains; closing a key that is not open changes nothing.
C37_CloseTab ==
    [][\A key \in scenario.files :
          HandleCloseFile(key) =>
             LET i == ActiveFile(openFiles, key) - 1
                 shown == IF i - 1 > 0 THEN i - 1 ELSE 0
             IN /\ i < 0 => UNCHANGED vars
                /\ i >= 0 =>
                      /\ ActiveFile(openFiles', key) = 0
                      /\ Len(openFiles') < Len(openFiles)
                /\ i >= 0 /\ activeFileKey # key => activeFileKey' = activeFileKey
                /\ i >= 0 /\ activeFileKey = key =>
                      IF openFiles' = <<>>
                      THEN activeFileKey' = NullKey
                      ELSE activeFileKey' = KeyOf(openFiles'[shown + 1])]_vars

\* a third tab was opened and closed again: two tabs remain, the second
\* of them is shown
C37_Witness ==
    /\ scenario = TabsRun
    /\ opening = <<>>
    /\ Len(openFiles) = 2
    /\ openFiles[1].repoFullName = "o/r"
    /\ openFiles[2].repoFullName = "o/r"
    /\ activeFileKey = KeyOf(openFiles[2])
    /\ branchesByRepo["p/q"]

----------------------------------------------------------------------------
(* Expansion run: the commit step *)

\* C33: a create-or-update call for a job is issued only while the job's
\* status is 'committing', and the status becomes 'success' only after that
\* call returned: a job shown as 'success' has one commit call, which is
\* over, and a job whose commit call is awaited is shown as 'committing'.
C33_SuccessOnlyAfterCommit ==
    [][ /\ \A j \in DOMAIN proc' :
              /\ (j \in DOMAIN commitLog /\ commitLog'[j] # commitLog[j])
                    => expansionJobs'[j].status = "committing"
              /\ proc'[j].pc = "commit" => expansionJobs'[j].status = "committing"
              /\ expansionJobs'[j].status = "success" =>
                    /\ Len(commitLog'[j]) = 1
                    /\ proc'[j].pc = "done"
        /\ \A j \in DOMAIN proc :
              (expansionJobs[j].status # "success" /\ expansionJobs'[j].status = "success")
                 => CommitReturn(j)
      ]_vars

----------------------------------------------------------------------------
(* Bulk edit run: abort *)

\* C34: when fetching the base branch or creating the new branch fails, the
\* bulk edit aborts with an error alert and no file is fetched, no
\* completion call is made and no commit is issued, then or later; and
\* whenever handleBulkEditSubmit is left, isLoading is false and
\* loadingMessage is empty.
C34_AbortBeforeAnyFile ==
    [][ /\ (GetBranchThrow \/ CreateBranchThrow) =>
              /\ alert'.type = "error"
              /\ bulk'.pc = "done"
              /\ bulkLog'.fetches = <<>>
              /\ bulkLog'.edits = <<>>
              /\ bulkLog'.commits = <<>>
        /\ (bulk.pc = "done" /\ bulk.i = 0 /\ bulk'.pc = "done") =>
              /\ bulkLog'.fetches = <<>>
              /\ bulkLog'.edits = <<>>
              /\ bulkLog'.commits = <<>>
        /\ (bulk.pc # "done" /\ bulk'.pc = "done") =>
              /\ isLoading' = FALSE
              /\ loadingMessage' = ""
      ]_vars

\* createBranch threw: the run is over before its loop, the abort alert is shown
C34_Witness ==
    /\ bulk.pc = "done"
    /\ bulk.i = 0
    /\ bulkLog.branches # <<>>
    /\ bulkLog.fetches = <<>>
    /\ alert = BulkFailedAlert
    /\ ~isLoading

----------------------------------------------------------------------------
(* Single-shot edit call: the result *)

\* C39: editCodeWithAI never returns an empty or whitespace-only string:
\* for every response of the model it either throws or returns text that
\* holds a character other than white space.
C39_NeverReturnsBlank ==
    edit.pc = "returned" => Trim(edit.cleanedCode) # <<>>

----------------------------------------------------------------------------
(* Editor: manual commit *)

\* C36: a manual commit that succeeds leaves the open file that was active
\* when the commit started with content and editedContent equal to the
\* re-fetched content and with the re-fetched revision marker, and changes no
\* other open file; a commit or re-fetch that throws leaves openFiles as it
\* was and shows an error alert.
C36_CommitUpdatesActiveFile ==
    [][ /\ (\E content \in Refetched(commit.content) : RefetchReturn(content)) =>
              /\ Len(openFiles') = Len(openFiles)
              /\ \A k \in DOMAIN openFiles :
                    IF KeyOf(openFiles[k]) = commit.key
                    THEN /\ KeyOf(openFiles'[k]) = commit.key
                         /\ openFiles'[k].content = commit'.updatedFile.content
                         /\ openFiles'[k].editedContent = commit'.updatedFile.content
                         /\ openFiles'[k].sha = commit'.updatedFile.sha
                    ELSE openFiles'[k] = openFiles[k]
              /\ alert'.type = "success"
        /\ (SaveThrow \/ RefetchThrow) =>
              /\ openFiles' = openFiles
              /\ alert'.type = "error"
      ]_vars

\* a commit of o/r::a is over, the user has typed into it before and looks
\* at the other tab: o/r::a holds the re-fetched content, p/q::c is as fetched
C36_Witness ==
    /\ commit.pc = "done"
    /\ alert = CommitSuccessfulAlert
    /\ commit.key = FileKey("o/r", "a")
    /\ commit.content = <<"y">>
    /\ activeFileKey = FileKey("p/q", "c")
    /\ Len(openFiles) = 2
    /\ \A k \in DOMAIN openFiles :
          IF KeyOf(openFiles[k]) = commit.key
          THEN /\ openFiles[k].content = commit.updatedFile.content
               /\ openFiles[k].sha = ShaOf(commit.updatedFile.content)
          ELSE openFiles[k].content = BlobAt("main", "c")

----------------------------------------------------------------------------
(* Session: login *)

\* C38: on token submit, the failure of one repository's tree fetch does not
\* fail the login: the token stays set, and when the login is over that
\* repository is listed with an empty tree and every other repository with
\* its tree; the token is reset to null only when the fetch of the repository
\* list fails; and when handleTokenSubmit is over, isLoading is false.
C38_TreeFailureKeepsLogin ==
    [][ /\ \A r \in Repos :
              FetchRepoTreeThrow(r) => token' # "null" /\ token' = token
        /\ (token # "null" /\ token' = "null") => FetchAllReposThrow
        /\ (login.pc # "done" /\ login'.pc = "done") => ~isLoading'
        /\ (login'.pc = "done" /\ token' # "null") =>
              /\ DOMAIN fileTree' = login'.repos
              /\ \A r \in login'.repos :
                    fileTree'[r] = IF r \in login'.failed THEN <<>> ELSE RepoTree(r)
      ]_vars

\* the login is over: the tree of o/r could not be fetched, o/r is listed
\* with an empty tree next to p/q with its tree, the token is set
C38_Witness ==
    /\ login.pc = "done"
    /\ token = "t"
    /\ login.repos = {"o/r", "p/q"}
    /\ login.failed = {"o/r"}
    /\ fileTree["o/r"] = <<>>
    /\ fileTree["p/q"] = RepoTree("p/q")
    /\ alert = LoadedAlert
    /\ ~isLoading

====
